---------------------------- MODULE Spec2Model ----------------------------
(***************************************************************************)
(* Model of the CHM_KRYPTON challenge engine                               *)
(* (backend/app/services/challenge_engine.py) together with the exchange   *)
(* gateway calls it makes and the purchase route that creates challenges.  *)
(*                                                                         *)
(* Money is in whole USDT.  A percentage is kept in hundredths of a        *)
(* percent (5.00 % = 500): the Decimal quotient (loss / base) * 100 is     *)
(* represented by floor(loss * 10000 / base).  Every plan limit is a       *)
(* Numeric(5,2), i.e. an integer number of hundredths, so each comparison  *)
(* of a percentage against a limit has the same outcome as in the code.    *)
(***************************************************************************)
EXTENDS Integers, Sequences, FiniteSets, TLC

(* ------------------------------ bounds -------------------------------- *)

MaxTicks == 3

MaxDay == 1

MaxTradesPerDay == 1

(* Highest trading_days_count of a stored challenge handed to a tick. *)
MaxTradingDays == 2
MaxSteps == 2
MaxRequests == 2

(* Trading requests that may be in flight together. *)
MaxHandlers == 2

(* ------------------------- program constants -------------------------- *)

SCALING_TRIGGER_PCT == 10

SCALING_INCREASE_PCT == 25

MAX_ACCOUNT_SIZE == 2000000

CONSISTENCY_LIMIT_PCT == 30

WARNING_THRESHOLD == 80
PROFIT_SPLIT_PCT == 80
MIN_PAYOUT_AMOUNT == 50

NULL == -1

(* Ids of the user_challenges rows the user may come to own. *)
CIDs == {1, 2}

(* ChallengeType rows (plans).  max_trading_days = 0 stands for None: the  *)
(* engine tests it by truthiness, so None and 0 behave alike.  PlanIds are *)
(* the plans on sale (is_active); AllPlanIds adds a plan that is no longer *)
(* sold but that stored challenges still refer to.                         *)
PlanIds == {"two_static", "one_trailing", "two_trailing"}

AllPlanIds == PlanIds \cup {"capped_days"}

ChallengeType ==
    [ two_static |->
        [account_size |-> 10000, profit_target_p1 |-> 800, profit_target_p2 |-> 500,
         max_daily_loss |-> 500, max_total_loss |-> 1000, drawdown_type |-> "static",
         min_trading_days |-> 0, max_trading_days |-> 0,
         consistency_rule |-> FALSE, is_one_phase |-> FALSE],
      one_trailing |->
        [account_size |-> 10000, profit_target_p1 |-> 800, profit_target_p2 |-> 500,
         max_daily_loss |-> 500, max_total_loss |-> 1000, drawdown_type |-> "trailing",
         min_trading_days |-> 0, max_trading_days |-> 0,
         consistency_rule |-> TRUE, is_one_phase |-> TRUE],
      two_trailing |->
        [account_size |-> 10000, profit_target_p1 |-> 800, profit_target_p2 |-> 500,
         max_daily_loss |-> 500, max_total_loss |-> 1000, drawdown_type |-> "trailing",
         min_trading_days |-> 1, max_trading_days |-> 0,
         consistency_rule |-> FALSE, is_one_phase |-> FALSE],
      capped_days |->
        [account_size |-> 10000, profit_target_p1 |-> 800, profit_target_p2 |-> 500,
         max_daily_loss |-> 500, max_total_loss |-> 1000, drawdown_type |-> "static",
         min_trading_days |-> 1, max_trading_days |-> 1,
         consistency_rule |-> TRUE, is_one_phase |-> FALSE] ]

(* What the exchange may answer to get_balance: <<equity, wallet_balance>>. *)
BalanceInputs ==
    { <<10000, 10000>>, <<12000, 12000>>, <<10800, 10800>>, <<9500, 9500>>,
      <<9600, 10000>>, <<9000, 9000>> }

(* P&L of a trade the exchange reports as closed. *)
TradePnls == {400}

(* Faulty variant: failed challenges are selected for checking as well. *)
ActiveStatuses_with_failed == {"phase1", "phase2", "funded", "failed"}

ActiveStatuses == {"phase1", "phase2", "funded"}

VARIABLES
    db,          \* committed user_challenges rows, by challenge id
    sess,        \* the engine session's in-memory UserChallenge objects
    loaded,      \* ids selected by the running run_all_checks
    todo,        \* ids of that run not yet checked
    running,     \* a run_all_checks is in progress
    ticks,       \* number of challenge checks started
    role,        \* users.role of the owning user (committed)
    violations,  \* committed Violation rows per challenge (types, in order)
    steps,       \* committed ScalingStep rows per challenge
    pendingSteps,\* ScalingStep rows added to the session, not yet committed
    master,      \* side effects on the master account per challenge
    day,         \* current UTC calendar day
    todayPnl,    \* sum of pnl of trades closed in the current UTC day
    tradesToday, \* number of trades closed in the current UTC day
    cont,        \* tick suspended after the funded-promotion commit
    obs,         \* what the last tick computed and decided
    seen,        \* highest equity the engine observed since the last promotion
    freeIds,     \* ids of the rows this user's purchases will insert
    calcIn,      \* arguments handed to the function under check
    calcOut,     \* what it returned
    tradesYesterday, \* number of trades closed in the previous UTC day
    payouts,     \* committed payouts rows of the funded challenge, in order
    req,         \* the payout requests in flight, by request
    bot_notifications, \* the Redis list bot_notifications, head first
    handlers,    \* the trading requests in flight: payloads still to queue
    pushed,      \* payloads in the order Redis accepted their LPUSH
    consumed,    \* payloads in the order the notification worker took them
    accounts,    \* paper mode: committed accounts rows of the user, oldest first
    trades,      \* paper mode: committed trades rows, by id
    today,       \* paper mode: current UTC calendar day
    resp,        \* paper mode: the last request served and what it did
    inflight     \* paper mode: close requests that hold a session open

vars == <<db, sess, loaded, todo, running, ticks, role, violations, steps,
          pendingSteps, master, day, todayPnl, tradesToday, cont, obs, seen,
          freeIds, calcIn, calcOut, tradesYesterday, payouts, req,
          bot_notifications, handlers, pushed, consumed,
                accounts, trades, today, resp, inflight>>

pure == <<calcIn, calcOut, payouts, req,
          bot_notifications, handlers, pushed, consumed,
                accounts, trades, today, resp, inflight>>

rest == <<freeIds, calcIn, calcOut, tradesYesterday, payouts, req,
          bot_notifications, handlers, pushed, consumed,
                accounts, trades, today, resp, inflight>>

(* ------------------------------ helpers ------------------------------- *)

Max(a, b) == IF a >= b THEN a ELSE b

Min(a, b) == IF a <= b THEN a ELSE b

(* A row of user_challenges that does not exist yet. *)
AbsentRow ==
    [plan |-> "two_static", status |-> "absent", phase |-> NULL, account_mode |-> "demo",
     real_account_id |-> FALSE, real_api_key_enc |-> FALSE,
     initial_balance |-> 0, current_balance |-> 0, peak_equity |-> 0,
     daily_start_balance |-> 0, daily_pnl |-> 0, total_pnl |-> 0,
     trading_days_count |-> 0, daily_reset_at |-> NULL,
     funded_at |-> NULL, failed_at |-> NULL, failed_reason |-> "none"]

(* The UserChallenge the purchase route constructs. *)
NewChallenge(plan, now) ==
    LET ct == ChallengeType[plan] IN
    [plan |-> plan, status |-> "phase1", phase |-> 1, account_mode |-> "demo",
     real_account_id |-> FALSE, real_api_key_enc |-> FALSE,
     initial_balance |-> ct.account_size, current_balance |-> ct.account_size,
     peak_equity |-> ct.account_size, daily_start_balance |-> ct.account_size,
     daily_pnl |-> 0, total_pnl |-> 0,
     trading_days_count |-> 0, daily_reset_at |-> now,
     funded_at |-> NULL, failed_at |-> NULL, failed_reason |-> "none"]


(* --------------------------- rule arithmetic --------------------------- *)

(* (loss / base) * 100 as a Decimal, in hundredths of a percent. *)
Pct(loss, base) == (loss * 10000) \div base

(* Faulty variant: the loss is not clamped at zero. *)
_calc_daily_drawdown_signed(challenge, equity) ==
    IF challenge.daily_start_balance = 0 THEN 0
    ELSE Pct(challenge.daily_start_balance - equity, challenge.daily_start_balance)

_calc_daily_drawdown(challenge, equity) ==
    IF challenge.daily_start_balance = 0 THEN 0
    ELSE LET daily_loss == challenge.daily_start_balance - equity IN
         IF daily_loss <= 0 THEN 0
         ELSE Pct(daily_loss, challenge.daily_start_balance)

(* Faulty variant: drawdown_type is ignored, the base is always static. *)
_calc_total_drawdown_from_initial(challenge, ct, equity) ==
    LET base == challenge.initial_balance
    IN  IF base = 0 THEN 0
        ELSE LET loss == base - equity IN
             IF loss <= 0 THEN 0 ELSE Pct(loss, base)

_calc_total_drawdown(challenge, ct, equity) ==
    LET base == IF ct.drawdown_type = "trailing"
                THEN challenge.peak_equity
                ELSE challenge.initial_balance
    IN  IF base = 0 THEN 0
        ELSE LET loss == base - equity IN
             IF loss <= 0 THEN 0 ELSE Pct(loss, base)

(* The notification types _check_drawdown_warnings dispatches.  The band   *)
(* starts at limit * 80 / 100; both sides are scaled by 100.               *)
_check_drawdown_warnings(ct, daily_dd, total_dd) ==
    (IF daily_dd * 100 >= ct.max_daily_loss * WARNING_THRESHOLD
        /\ daily_dd < ct.max_daily_loss
     THEN {"daily_drawdown_80"} ELSE {})
    \cup
    (IF total_dd * 100 >= ct.max_total_loss * WARNING_THRESHOLD
        /\ total_dd < ct.max_total_loss
     THEN {"total_drawdown_80"} ELSE {})

(* Faulty variant: exactly 30 % of the profit counts as a violation. *)
_check_consistency_rule_inclusive(challenge, today_pnl) ==
    IF challenge.total_pnl <= 0 THEN "none"
    ELSE IF today_pnl * 100 >= challenge.total_pnl * CONSISTENCY_LIMIT_PCT
         THEN "consistency" ELSE "none"

(* _check_consistency_rule, today_pnl being the sum over the trades closed *)
(* since today's midnight UTC: today_pnl > total_pnl * 30 / 100, both      *)
(* sides scaled by 100.                                                    *)
_check_consistency_rule(challenge, today_pnl) ==
    IF challenge.total_pnl <= 0 THEN "none"
    ELSE IF today_pnl * 100 > challenge.total_pnl * CONSISTENCY_LIMIT_PCT
         THEN "consistency" ELSE "none"

(* Faulty variant: the limits are exclusive. *)
DrawdownViolation_strict(ct, daily_dd, total_dd) ==
    IF daily_dd > ct.max_daily_loss THEN "daily_loss"
    ELSE IF total_dd > ct.max_total_loss THEN "total_loss"
    ELSE "none"

(* The two drawdown rules at the head of _check_violations. *)
DrawdownViolation(ct, daily_dd, total_dd) ==
    IF daily_dd >= ct.max_daily_loss THEN "daily_loss"
    ELSE IF total_dd >= ct.max_total_loss THEN "total_loss"
    ELSE "none"

(* Faulty variant: the last allowed trading day already counts. *)
MaxTradingDaysExceeded_inclusive(challenge, ct) ==
    /\ ct.max_trading_days # 0
    /\ challenge.trading_days_count >= ct.max_trading_days

(* ct.max_trading_days and trading_days_count > ct.max_trading_days;       *)
(* max_trading_days = 0 stands for a plan without a maximum (None).        *)
MaxTradingDaysExceeded(challenge, ct) ==
    /\ ct.max_trading_days # 0
    /\ challenge.trading_days_count > ct.max_trading_days

(* Faulty variant: the consistency rule is evaluated before the others. *)
_check_violations_consistency_first(challenge, ct, daily_dd, total_dd, today_pnl) ==
    IF ct.consistency_rule /\ challenge.total_pnl > 0
       /\ _check_consistency_rule(challenge, today_pnl) # "none"
    THEN "consistency"
    ELSE IF DrawdownViolation(ct, daily_dd, total_dd) # "none"
         THEN DrawdownViolation(ct, daily_dd, total_dd)
    ELSE IF ct.max_trading_days # 0
            /\ challenge.trading_days_count > ct.max_trading_days
         THEN "max_trading_days"
    ELSE "none"

(* The type of the violation _check_violations returns, "none" for None. *)
_check_violations(challenge, ct, daily_dd, total_dd, today_pnl) ==
    IF DrawdownViolation(ct, daily_dd, total_dd) # "none"
    THEN DrawdownViolation(ct, daily_dd, total_dd)
    ELSE IF MaxTradingDaysExceeded(challenge, ct)
         THEN "max_trading_days"
    ELSE IF ct.consistency_rule /\ challenge.total_pnl > 0
         THEN _check_consistency_rule(challenge, today_pnl)
    ELSE "none"

(* Faulty variant: the reset is repeated on every tick of the day. *)
_daily_reset_check_every_tick(challenge, current_balance, now) ==
    IF challenge.daily_reset_at = NULL
    THEN [challenge EXCEPT !.daily_reset_at = now,
                           !.daily_start_balance = current_balance]
    ELSE IF now >= challenge.daily_reset_at
         THEN [challenge EXCEPT !.daily_start_balance = current_balance,
                                !.daily_pnl = 0,
                                !.daily_reset_at = now]
         ELSE challenge

(* _daily_reset_check; now and daily_reset_at are UTC calendar days. *)
_daily_reset_check(challenge, current_balance, now) ==
    IF challenge.daily_reset_at = NULL
    THEN [challenge EXCEPT !.daily_reset_at = now,
                           !.daily_start_balance = current_balance]
    ELSE IF now > challenge.daily_reset_at
         THEN [challenge EXCEPT !.daily_start_balance = current_balance,
                                !.daily_pnl = 0,
                                !.daily_reset_at = now]
         ELSE challenge

(* Faulty variant: the peak follows the equity down. *)
UpdatePeak_overwrite(challenge, equity) ==
    [challenge EXCEPT !.peak_equity = equity]

(* if equity > challenge.peak_equity: challenge.peak_equity = equity *)
UpdatePeak(challenge, equity) ==
    IF equity > challenge.peak_equity
    THEN [challenge EXCEPT !.peak_equity = equity]
    ELSE challenge

(* Steps 2-4 of _check_challenge: balance, peak, daily reset, P&L. *)
UpdateBalances(challenge, equity, wallet_balance, now) ==
    LET c1 == [challenge EXCEPT !.current_balance = wallet_balance]
        c2 == UpdatePeak(c1, equity)
        c3 == _daily_reset_check(c2, wallet_balance, now)
    IN  [c3 EXCEPT !.daily_pnl = equity - c3.daily_start_balance,
                   !.total_pnl = equity - c3.initial_balance]

(* ------------------------- exchange gateway ---------------------------- *)

Symbols == <<"BTCUSDT", "ETHUSDT">>

(* Open positions get_positions may return, in the order returned. *)
PositionLists == { SubSeq(Symbols, 1, n) : n \in 0..Len(Symbols) }

(* place_order for one symbol: success, a non-zero retCode (BybitAPIError) *)
(* or a transport failure (httpx.HTTPError: timeout, HTTP 5xx).            *)
OrderOutcomes == {"ok", "api_error", "http_error"}

CallOutcomes == {"ok", "api_error", "http_error"}

RECURSIVE CloseFrom(_, _, _, _)
(* The loop of BybitClient.close_all_positions from position i on. *)
CloseFrom(positions, outs, i, acc) ==
    IF i > Len(positions) THEN acc
    ELSE LET a1 == [acc EXCEPT !.attempted = @ \cup {positions[i]}] IN
         IF outs[i] = "ok"
         THEN CloseFrom(positions, outs, i + 1,
                        [a1 EXCEPT !.closed = @ \cup {positions[i]}])
         ELSE IF outs[i] = "api_error"
         THEN CloseFrom(positions, outs, i + 1, a1)
         ELSE [a1 EXCEPT !.raised = "http_error"]

close_all_positions(getpos, positions, outs) ==
    IF getpos # "ok"
    THEN [raised |-> getpos, positions |-> {}, attempted |-> {}, closed |-> {}]
    ELSE CloseFrom(positions, outs, 1,
                   [raised |-> "none",
                    positions |-> {positions[i] : i \in 1..Len(positions)},
                    attempted |-> {}, closed |-> {}])

(* Every way one call of close_all_positions may go: the exception it     *)
(* raises, if any, and the open positions it never tried to close.        *)
CloseResults ==
    LET all == UNION { UNION { { close_all_positions(g, p, o) :
                                   o \in [1..Len(p) -> OrderOutcomes] }
                               : p \in PositionLists }
                       : g \in CallOutcomes }
    IN  { [raised |-> r.raised, failed |-> r.attempted \ r.closed,
           unattempted |-> r.positions \ r.attempted] : r \in all }


(* How BybitMasterClient.setup_funded_account may end: success, or a      *)
(* failure of its balance check, sub-account creation, transfer or key    *)
(* creation.                                                               *)
ProvisionOutcomes == {"ok", "fail_balance", "fail_sub", "fail_transfer", "fail_key"}

(* The master-account side effects setup_funded_account leaves behind. *)
setup_funded_account(m, outcome) ==
    [m EXCEPT !.subs    = IF outcome \in {"ok", "fail_transfer", "fail_key"}
                          THEN @ + 1 ELSE @,
              !.funding = IF outcome \in {"ok", "fail_key"} THEN @ + 1 ELSE @]

(* ------------------------- the engine's decisions ---------------------- *)

(* Faulty variant: is_one_phase is ignored. *)
PromotionTarget_two_phase_only(challenge, ct) ==
    IF challenge.status = "phase1" THEN "phase2" ELSE "funded"

(* Where _check_profit_target sends a challenge that has met its target. *)
PromotionTarget(challenge, ct) ==
    IF challenge.status = "phase1"
    THEN (IF ct.is_one_phase THEN "funded" ELSE "phase2")
    ELSE "funded"

(* Faulty variant: the minimum of trading days is not required. *)
_check_profit_target_no_min_days(challenge, ct, total_pnl) ==
    IF challenge.status \notin {"phase1", "phase2"}
    THEN [notes |-> {}, decision |-> "none"]
    ELSE
      LET target_pct == IF challenge.status = "phase1"
                        THEN ct.profit_target_p1 ELSE ct.profit_target_p2
          current_profit_pct == Pct(total_pnl, challenge.initial_balance)
          notes == IF current_profit_pct * 100 >= target_pct * 80
                   THEN {"goal_80_pct"}
                   ELSE IF current_profit_pct * 100 >= target_pct * 50
                        THEN {"goal_50_pct"} ELSE {}
          reached  == total_pnl * 10000 >= challenge.initial_balance * target_pct
      IN  [notes |-> notes,
           decision |-> IF ~reached THEN "none" ELSE PromotionTarget(challenge, ct)]

(* _check_profit_target up to the promotion call: the goal notifications   *)
(* it dispatches and the transition it decides on.                         *)
_check_profit_target(challenge, ct, total_pnl) ==
    IF challenge.status \notin {"phase1", "phase2"}
    THEN [notes |-> {}, decision |-> "none"]
    ELSE
      LET target_pct == IF challenge.status = "phase1"
                        THEN ct.profit_target_p1 ELSE ct.profit_target_p2
          current_profit_pct == Pct(total_pnl, challenge.initial_balance)
          notes == IF current_profit_pct * 100 >= target_pct * 80
                   THEN {"goal_80_pct"}
                   ELSE IF current_profit_pct * 100 >= target_pct * 50
                        THEN {"goal_50_pct"} ELSE {}
          reached  == total_pnl * 10000 >= challenge.initial_balance * target_pct
          min_days_met == challenge.trading_days_count >= ct.min_trading_days
      IN  [notes |-> notes,
           decision |->
             IF ~reached \/ ~min_days_met THEN "none"
             ELSE PromotionTarget(challenge, ct)]

(* Faulty variant: the balances of phase 1 are carried into phase 2. *)
_promote_to_phase2_keep_balances(challenge) ==
    [challenge EXCEPT !.status = "phase2", !.phase = 2,
                      !.trading_days_count = 0,
                      !.daily_pnl = 0, !.total_pnl = 0]

(* The field assignments of _promote_to_phase2. *)
_promote_to_phase2(challenge) ==
    [challenge EXCEPT !.status = "phase2", !.phase = 2,
                      !.trading_days_count = 0,
                      !.daily_pnl = 0, !.total_pnl = 0,
                      !.current_balance = challenge.initial_balance,
                      !.peak_equity = challenge.initial_balance,
                      !.daily_start_balance = challenge.initial_balance]

(* Faulty variant: account_mode is left at demo. *)
_promote_to_funded_keep_mode(challenge, now) ==
    [challenge EXCEPT !.real_account_id = TRUE, !.real_api_key_enc = TRUE,
                      !.status = "funded",
                      !.funded_at = now, !.phase = NULL,
                      !.trading_days_count = 0,
                      !.daily_pnl = 0, !.total_pnl = 0,
                      !.daily_start_balance = challenge.initial_balance,
                      !.current_balance = challenge.initial_balance,
                      !.peak_equity = challenge.initial_balance]

(* The field assignments of _promote_to_funded. *)
_promote_to_funded(challenge, now) ==
    [challenge EXCEPT !.real_account_id = TRUE, !.real_api_key_enc = TRUE,
                      !.status = "funded", !.account_mode = "funded",
                      !.funded_at = now, !.phase = NULL,
                      !.trading_days_count = 0,
                      !.daily_pnl = 0, !.total_pnl = 0,
                      !.daily_start_balance = challenge.initial_balance,
                      !.current_balance = challenge.initial_balance,
                      !.peak_equity = challenge.initial_balance]

(* Faulty variant: the increase is not capped at MAX_ACCOUNT_SIZE. *)
ScaledSize_uncapped(old_size) ==
    (old_size * (100 + SCALING_INCREASE_PCT)) \div 100

(* min(old_size * (1 + SCALING_INCREASE_PCT / 100), MAX_ACCOUNT_SIZE) *)
ScaledSize(old_size) ==
    Min((old_size * (100 + SCALING_INCREASE_PCT)) \div 100, MAX_ACCOUNT_SIZE)

(* What a tick without a scaling event leaves behind. *)
NoScaling(challenge) ==
    [ch |-> challenge, step |-> 0, transferred |-> 0, notes |-> {},
     number |-> 0, before |-> 0, after |-> 0, amount |-> 0]

(* Faulty variant: every step is triggered by the first 10 % of profit. *)
_check_scaling_flat_trigger(challenge, total_pnl, nsteps, nviol, transfer) ==
    LET required_pct == SCALING_TRIGGER_PCT
        old_size == challenge.current_balance
        new_size == ScaledSize(old_size)
    IN  IF challenge.current_balance >= MAX_ACCOUNT_SIZE THEN NoScaling(challenge)
        ELSE IF total_pnl * 100 < required_pct * challenge.initial_balance
             THEN NoScaling(challenge)
        ELSE IF nviol > 0 THEN NoScaling(challenge)
        ELSE [ch |-> [challenge EXCEPT
                         !.current_balance = new_size,
                         !.initial_balance = new_size,
                         !.peak_equity = Max(challenge.peak_equity, new_size)],
              step |-> 1, transferred |-> 1, notes |-> {"scaling"},
              number |-> nsteps + 1, before |-> old_size, after |-> new_size,
              amount |-> new_size - old_size]

(* _check_scaling: nsteps is len(challenge.scaling_steps), nviol the       *)
(* number of Violation rows since the last scaling, transfer the outcome   *)
(* of master_client.internal_transfer.  step is the ScalingStep row added  *)
(* to the session (number, before, after), amount the sum handed to the    *)
(* transfer.                                                               *)
_check_scaling(challenge, total_pnl, nsteps, nviol, transfer) ==
    LET required_pct == SCALING_TRIGGER_PCT * (nsteps + 1)
        old_size == challenge.current_balance
        new_size == ScaledSize(old_size)
        row == [NoScaling(challenge) EXCEPT
                  !.step = 1, !.number = nsteps + 1,
                  !.before = old_size, !.after = new_size,
                  !.amount = new_size - old_size]
    IN  IF challenge.current_balance >= MAX_ACCOUNT_SIZE THEN NoScaling(challenge)
        ELSE IF total_pnl * 100 < required_pct * challenge.initial_balance
             THEN NoScaling(challenge)
        ELSE IF nviol > 0 THEN NoScaling(challenge)
        ELSE IF transfer = "ok"
             THEN [row EXCEPT
                     !.ch = [challenge EXCEPT
                               !.current_balance = new_size,
                               !.initial_balance = new_size,
                               !.peak_equity = Max(challenge.peak_equity, new_size)],
                     !.transferred = 1, !.notes = {"scaling"}]
             ELSE row

(* Step 9 of _check_challenge: scaling is looked at for a funded challenge *)
(* only.                                                                   *)
ScalingOfTick(challenge, total_pnl, nsteps, nviol, transfer) ==
    IF challenge.status = "funded"
    THEN _check_scaling(challenge, total_pnl, nsteps, nviol, transfer)
    ELSE NoScaling(challenge)

(* Steps 1-6 of _check_challenge for the answer <<equity, wallet>>. *)
Observe(challenge, bal, now, today_pnl) ==
    LET ct == ChallengeType[challenge.plan]
        equity == bal[1]
        ch == UpdateBalances(challenge, equity, bal[2], now)
        daily_dd == _calc_daily_drawdown(ch, equity)
        total_dd == _calc_total_drawdown(ch, ct, equity)
        total_pnl == equity - ch.initial_balance
        target == _check_profit_target(ch, ct, total_pnl)
    IN  [ch |-> ch, equity |-> equity, daily_dd |-> daily_dd, total_dd |-> total_dd,
         total_pnl |-> total_pnl,
         warn |-> _check_drawdown_warnings(ct, daily_dd, total_dd),
         viol |-> _check_violations(ch, ct, daily_dd, total_dd, today_pnl),
         goal |-> target.notes,
         decision |-> target.decision]


(* ------------------------------- state --------------------------------- *)

NoCont == [cid |-> 0, total_pnl |-> 0]

NoCalc == [daily_start_balance |-> 0, initial_balance |-> 0, peak_equity |-> 0,
           drawdown_type |-> "static", equity |-> 0]

NoCalcOut == [done |-> FALSE, daily |-> 0, total |-> 0]

(* The concurrent requests to /trading/close and /trading/check-tpsl. *)
Handlers == 1..MaxHandlers

(* A request that has not arrived. *)
NoHandler == [pc |-> "idle", pending |-> <<>>]

(* Nothing queued, nothing taken, no trading request in flight. *)
QueueIdle ==
    /\ bot_notifications = <<>>
    /\ handlers = [h \in Handlers |-> NoHandler]
    /\ pushed = <<>>
    /\ consumed = <<>>

(* Paper mode with no account. *)
PaperIdle ==
    /\ accounts = <<>>
    /\ trades = <<>>
    /\ today = 0
    /\ resp = [op |-> "none", code |-> 0, notify |-> "none"]
    /\ inflight = <<>>

(* The concurrent POST /payouts/request calls of the user. *)
Requests == 1..MaxRequests

(* A request that has not arrived. *)
NoReq == [pc |-> "idle", amount |-> 0, result |-> "none"]

NoObs ==
    [cid |-> 0, outcome |-> "none", equity |-> 0, total_pnl |-> 0,
     daily_dd |-> 0, total_dd |-> 0, base |-> 0,
     viol |-> "none", decision |-> "none",
     closeRaised |-> "none", closeFailed |-> {}, unattempted |-> {},
     topup |-> "none", provision |-> "none", scaled |-> FALSE,
     notes |-> {}]

(* Nothing has been purchased and no engine run has started. *)
(* The engine with no challenge. *)
EngineIdle ==
    /\ db = [c \in CIDs |-> AbsentRow]
    /\ sess = [c \in CIDs |-> AbsentRow]
    /\ loaded = {}
    /\ todo = {}
    /\ running = FALSE
    /\ ticks = 0
    /\ role = "guest"
    /\ violations = [c \in CIDs |-> <<>>]
    /\ steps = [c \in CIDs |-> 0]
    /\ pendingSteps = [c \in CIDs |-> 0]
    /\ master = [c \in CIDs |-> [subs |-> 0, funding |-> 0, scaling |-> 0]]
    /\ day = 0
    /\ todayPnl = [c \in CIDs |-> 0]
    /\ tradesToday = [c \in CIDs |-> 0]
    /\ cont = NoCont
    /\ obs = NoObs
    /\ seen = [c \in CIDs |-> 0]
    /\ tradesYesterday = [c \in CIDs |-> 0]
    /\ payouts = <<>>
    /\ req = [r \in Requests |-> NoReq]
    /\ QueueIdle

EngineInit ==
    /\ EngineIdle
    /\ PaperIdle

(* One user who buys one challenge. *)
Init ==
    /\ EngineInit
    /\ freeIds = {1}
    /\ calcIn = NoCalc
    /\ calcOut = NoCalcOut

(* session.commit(): every object of the session is flushed. *)
Commit(s) == [c \in CIDs |-> IF c \in loaded THEN s[c] ELSE db[c]]

CommitSteps == [c \in CIDs |-> steps[c] + pendingSteps[c]]

NoPending == [c \in CIDs |-> 0]

(* ------------------------ requests and environment --------------------- *)

(* POST /challenges/purchase for a plan, the demo account being created.   *)
(* A request that is rejected (409) or whose demo account cannot be        *)
(* created (503) changes nothing.                                          *)
purchase_challenge(plan) ==
    /\ ~running
    /\ freeIds # {}
    /\ ~ \E c \in CIDs : db[c].plan = plan /\ db[c].status \in {"phase1", "phase2"}
    /\ LET c == CHOOSE x \in freeIds : \A y \in freeIds : x <= y
           row == NewChallenge(plan, day)
       IN  /\ db' = [db EXCEPT ![c] = row]
           /\ sess' = [sess EXCEPT ![c] = row]
           /\ obs' = [NoObs EXCEPT !.cid = c, !.outcome = "purchased",
                                    !.notes = {"challenge_purchased"}]
           /\ freeIds' = freeIds \ {c}
    /\ role' = IF role = "guest" THEN "challenger" ELSE role
    /\ UNCHANGED <<loaded, todo, running, ticks, violations, steps, pendingSteps,
                   master, day, todayPnl, tradesToday, cont, seen, tradesYesterday,
                   pure>>

(* Midnight UTC passes. *)
DayAdvance ==
    /\ ~running
    /\ day < MaxDay
    /\ day' = day + 1
    /\ todayPnl' = [c \in CIDs |-> 0]
    /\ tradesToday' = [c \in CIDs |-> 0]
    /\ tradesYesterday' = tradesToday
    /\ UNCHANGED <<db, sess, loaded, todo, running, ticks, role, violations, steps,
                   pendingSteps, master, cont, obs, seen, freeIds, pure>>

(* A Trade row with the given pnl, closed now, appears for the challenge. *)
TradeClosed(c, pnl) ==
    /\ ~running
    /\ db[c].status \in ActiveStatuses
    /\ tradesToday[c] < MaxTradesPerDay
    /\ tradesToday' = [tradesToday EXCEPT ![c] = @ + 1]
    /\ todayPnl' = [todayPnl EXCEPT ![c] = @ + pnl]
    /\ UNCHANGED <<db, sess, loaded, todo, running, ticks, role, violations, steps,
                   pendingSteps, master, day, cont, obs, seen, rest>>

(* ------------------------------ the engine ----------------------------- *)

(* Faulty variant: the job is started although its last run is still      *)
(* active (no max_instances = 1).                                          *)
RunStart_overlapping ==
    /\ cont = NoCont
    /\ ticks + Cardinality({c \in CIDs : db[c].status \in ActiveStatuses}) <= MaxTicks
    /\ running' = TRUE
    /\ loaded' = {c \in CIDs : db[c].status \in ActiveStatuses}
    /\ todo' = loaded'
    /\ sess' = db
    /\ obs' = NoObs
    /\ UNCHANGED <<db, ticks, role, violations, steps, pendingSteps, master,
                   day, todayPnl, tradesToday, cont, seen, rest>>

(* The scheduler starts the challenge_engine job, which it does only when  *)
(* no run of the job is active (max_instances = 1, coalesce), and          *)
(* run_all_checks selects the active challenges into a fresh session.      *)
RunStart ==
    /\ ~running
    /\ ticks + Cardinality({c \in CIDs : db[c].status \in ActiveStatuses}) <= MaxTicks
    /\ running' = TRUE
    /\ loaded' = {c \in CIDs : db[c].status \in ActiveStatuses}
    /\ todo' = loaded'
    /\ sess' = db
    /\ obs' = NoObs
    /\ UNCHANGED <<db, ticks, role, violations, steps, pendingSteps, master,
                   day, todayPnl, tradesToday, cont, seen, rest>>

(* The loop is over; get_db commits the session and closes it. *)
RunEnd ==
    /\ running /\ todo = {} /\ cont = NoCont
    /\ db' = Commit(sess)
    /\ sess' = db'
    /\ steps' = CommitSteps
    /\ pendingSteps' = NoPending
    /\ running' = FALSE
    /\ loaded' = {}
    /\ obs' = NoObs
    /\ UNCHANGED <<todo, ticks, role, violations, master, day,
                   todayPnl, tradesToday, cont, seen, rest>>

Checkable(c) == running /\ c \in todo /\ cont = NoCont

(* The check of challenge c leaves the loop's work list. *)
Checked(c) ==
    /\ todo' = todo \ {c}
    /\ ticks' = ticks + 1

(* Faulty variant: the error leaves the loop of run_all_checks. *)
TickFetchFailed_ends_run(c) ==
    /\ Checkable(c)
    /\ todo' = {}
    /\ ticks' = ticks + 1
    /\ obs' = [NoObs EXCEPT !.cid = c, !.outcome = "skipped"]
    /\ UNCHANGED <<db, sess, loaded, running, role, violations, steps,
                   pendingSteps, master, day, todayPnl, tradesToday, cont, seen, rest>>

(* _check_challenge when the credentials cannot be decrypted or            *)
(* get_balance fails: nothing has been touched.                            *)
TickFetchFailed(c) ==
    /\ Checkable(c)
    /\ Checked(c)
    /\ obs' = [NoObs EXCEPT !.cid = c, !.outcome = "skipped"]
    /\ UNCHANGED <<db, sess, loaded, running, role, violations, steps,
                   pendingSteps, master, day, todayPnl, tradesToday, cont, seen, rest>>

ObsOf(c, o) ==
    [NoObs EXCEPT !.cid = c, !.equity = o.equity, !.total_pnl = o.total_pnl,
                  !.daily_dd = o.daily_dd, !.total_dd = o.total_dd,
                  !.base = IF ChallengeType[o.ch.plan].drawdown_type = "trailing"
                           THEN o.ch.peak_equity ELSE o.ch.initial_balance,
                  !.viol = o.viol,
                  !.decision = IF o.viol = "none" THEN o.decision ELSE "none"]

ObsClose(ob, cl) ==
    [ob EXCEPT !.closeRaised = cl.raised,
               !.closeFailed = cl.failed,
               !.unattempted = cl.unattempted]

(* Faulty variant: the role is taken away although a challenge remains. *)
_update_user_role_on_fail_always(c, user_role, rows) == "guest"

(* _update_user_role_on_fail: the role the user is left with when          *)
(* challenge c fails, rows being the user's challenges as stored.          *)
_update_user_role_on_fail(c, user_role, rows) ==
    LET other_active == \E x \in CIDs \ {c} : rows[x].status \in ActiveStatuses
    IN  IF other_active THEN user_role ELSE "guest"

(* _check_challenge when _check_violations reports a violation:            *)
(* _handle_violation closes positions (any failure is logged), records the *)
(* Violation, fails the challenge, commits and notifies.                   *)
TickViolation(c) ==
    /\ Checkable(c)
    /\ \E bal \in BalanceInputs :
         Observe(sess[c], bal, day, todayPnl[c]).viol # "none"
         /\ \E cl \in CloseResults :
         LET o == Observe(sess[c], bal, day, todayPnl[c])
             row == [o.ch EXCEPT !.status = "failed", !.failed_at = day,
                                 !.failed_reason = o.viol]
         IN  /\ o.viol # "none"
             /\ sess' = [sess EXCEPT ![c] = row]
             /\ db' = Commit(sess')
             /\ violations' = [violations EXCEPT ![c] = Append(@, o.viol)]
             /\ role' = _update_user_role_on_fail(c, role, db)
             /\ obs' = [ObsClose(ObsOf(c, o), cl) EXCEPT
                          !.outcome = "failed",
                          !.notes = o.warn \cup {"violation"}]
             /\ seen' = [seen EXCEPT ![c] = Max(@, o.equity)]
    /\ Checked(c)
    /\ steps' = CommitSteps
    /\ pendingSteps' = NoPending
    /\ UNCHANGED <<loaded, running, master, day, todayPnl, tradesToday, cont, rest>>

(* _check_challenge when the profit target promotes phase1 to phase2       *)
(* (_promote_to_phase2).  close_all_positions is not guarded there: when   *)
(* it raises, the tick ends without a commit and the objects stay dirty.   *)
TickPromotePhase2(c) ==
    /\ Checkable(c)
    /\ \E bal \in BalanceInputs :
         Observe(sess[c], bal, day, todayPnl[c]).viol = "none"
         /\ Observe(sess[c], bal, day, todayPnl[c]).decision = "phase2"
         /\ \E cl \in CloseResults, topup \in {"ok", "failed"} :
         LET o == Observe(sess[c], bal, day, todayPnl[c])
             ob == ObsClose(ObsOf(c, o), cl)
         IN  /\ o.viol = "none"
             /\ o.decision = "phase2"
             /\ IF cl.raised # "none"
                THEN /\ sess' = [sess EXCEPT ![c] = o.ch]
                     /\ obs' = [ob EXCEPT !.outcome = "error",
                                          !.notes = o.warn \cup o.goal]
                     /\ seen' = [seen EXCEPT ![c] = Max(@, o.equity)]
                     /\ UNCHANGED <<db, steps, pendingSteps>>
                ELSE /\ sess' = [sess EXCEPT ![c] = _promote_to_phase2(o.ch)]
                     /\ db' = Commit(sess')
                     /\ steps' = CommitSteps
                     /\ pendingSteps' = NoPending
                     /\ obs' = [ob EXCEPT !.outcome = "promoted", !.topup = topup,
                                          !.notes = o.warn \cup o.goal \cup {"phase1_passed"}]
                     /\ seen' = [seen EXCEPT ![c] = 0]
    /\ Checked(c)
    /\ UNCHANGED <<loaded, running, role, violations, master, day,
                   todayPnl, tradesToday, cont, rest>>

(* _check_challenge when the profit target promotes to funded              *)
(* (_promote_to_funded), up to the commit of the promotion.  Any failure   *)
(* is logged and re-raised: the tick ends without a commit.  After a       *)
(* successful promotion the tick goes on (TickAfterFunded).                *)
TickPromoteFunded(c) ==
    /\ Checkable(c)
    /\ \E bal \in BalanceInputs :
         Observe(sess[c], bal, day, todayPnl[c]).viol = "none"
         /\ Observe(sess[c], bal, day, todayPnl[c]).decision = "funded"
         /\ \E cl \in CloseResults, provision \in ProvisionOutcomes :
         LET o == Observe(sess[c], bal, day, todayPnl[c])
             ob == ObsClose(ObsOf(c, o), cl)
         IN  /\ o.viol = "none"
             /\ o.decision = "funded"
             /\ IF o.ch.account_mode = "demo" /\ cl.raised # "none"
                THEN /\ sess' = [sess EXCEPT ![c] = o.ch]
                     /\ obs' = [ob EXCEPT !.outcome = "error",
                                          !.notes = o.warn \cup o.goal]
                     /\ seen' = [seen EXCEPT ![c] = Max(@, o.equity)]
                     /\ Checked(c)
                     /\ UNCHANGED <<db, steps, pendingSteps, role, master, cont>>
                ELSE IF provision # "ok"
                THEN /\ sess' = [sess EXCEPT ![c] = o.ch]
                     /\ master' = [master EXCEPT ![c] = setup_funded_account(@, provision)]
                     /\ obs' = [ob EXCEPT !.outcome = "error", !.provision = provision,
                                          !.notes = o.warn \cup o.goal]
                     /\ seen' = [seen EXCEPT ![c] = Max(@, o.equity)]
                     /\ Checked(c)
                     /\ UNCHANGED <<db, steps, pendingSteps, role, cont>>
                ELSE /\ sess' = [sess EXCEPT ![c] = _promote_to_funded(o.ch, day)]
                     /\ master' = [master EXCEPT ![c] = setup_funded_account(@, provision)]
                     /\ role' = "funded_trader"
                     /\ db' = Commit(sess')
                     /\ steps' = CommitSteps
                     /\ pendingSteps' = NoPending
                     /\ obs' = [ob EXCEPT !.outcome = "promoted", !.provision = provision,
                                          !.notes = o.warn \cup o.goal \cup {"funded"}]
                     /\ seen' = [seen EXCEPT ![c] = 0]
                     /\ cont' = [cid |-> c, total_pnl |-> o.total_pnl]
                     /\ UNCHANGED <<todo, ticks>>
    /\ UNCHANGED <<loaded, running, violations, day, todayPnl, tradesToday, rest>>

(* Steps 8-9 and the final commit of _check_challenge: trading days (which *)
(* only reads), scaling of a funded challenge with the tick's total_pnl,   *)
(* commit.                                                                 *)
FinishTick(c, ch, total_pnl, notes, ob) ==
    \E transfer \in {"ok", "failed"} :
      LET sc == ScalingOfTick(ch, total_pnl, steps[c], Len(violations[c]), transfer)
      IN  /\ sess' = [sess EXCEPT ![c] = sc.ch]
          /\ db' = Commit(sess')
          /\ steps' = [x \in CIDs |-> steps[x] + pendingSteps[x]
                                      + (IF x = c THEN sc.step ELSE 0)]
          /\ pendingSteps' = NoPending
          /\ master' = [master EXCEPT ![c].scaling = @ + sc.transferred]
          /\ obs' = [ob EXCEPT !.scaled = (sc.step = 1),
                               !.notes = notes \cup sc.notes]
          /\ Checked(c)

(* The rest of the tick that promoted the challenge to funded. *)
TickAfterFunded(c) ==
    /\ running /\ cont.cid = c
    /\ FinishTick(c, sess[c], cont.total_pnl, obs.notes, obs)
    /\ cont' = NoCont
    /\ UNCHANGED <<loaded, running, role, violations, day, todayPnl, tradesToday,
                   seen, rest>>

(* _check_challenge when there is neither a violation nor a promotion. *)
TickPlain(c) ==
    /\ Checkable(c)
    /\ \E bal \in BalanceInputs :
         LET o == Observe(sess[c], bal, day, todayPnl[c]) IN
         /\ o.viol = "none"
         /\ o.decision = "none"
         /\ FinishTick(c, o.ch, o.total_pnl, o.warn \cup o.goal,
                       [ObsOf(c, o) EXCEPT !.outcome = "ok"])
         /\ seen' = [seen EXCEPT ![c] = Max(@, o.equity)]
    /\ UNCHANGED <<loaded, running, role, violations, day, todayPnl,
                   tradesToday, cont, rest>>

Next ==
    \/ \E plan \in PlanIds : purchase_challenge(plan)
    \/ DayAdvance
    \/ \E c \in CIDs, pnl \in TradePnls : TradeClosed(c, pnl)
    \/ RunStart
    \/ RunEnd
    \/ \E c \in CIDs : TickFetchFailed(c)
    \/ \E c \in CIDs : TickViolation(c)
    \/ \E c \in CIDs : TickPromotePhase2(c)
    \/ \E c \in CIDs : TickPromoteFunded(c)
    \/ \E c \in CIDs : TickAfterFunded(c)
    \/ \E c \in CIDs : TickPlain(c)

Spec == Init /\ [][Next]_vars

(* ---------------------- one user, two challenges ----------------------- *)

(* The user may buy twice; the day does not change and no trade is closed. *)
InitTwo ==
    /\ EngineInit
    /\ freeIds = CIDs
    /\ calcIn = NoCalc
    /\ calcOut = NoCalcOut

NextTwo ==
    \/ \E plan \in PlanIds : purchase_challenge(plan)
    \/ RunStart
    \/ RunEnd
    \/ \E c \in CIDs : TickFetchFailed(c)
    \/ \E c \in CIDs : TickViolation(c)
    \/ \E c \in CIDs : TickPromotePhase2(c)
    \/ \E c \in CIDs : TickPromoteFunded(c)
    \/ \E c \in CIDs : TickAfterFunded(c)
    \/ \E c \in CIDs : TickPlain(c)

SpecTwo == InitTwo /\ [][NextTwo]_vars

(* The user holds a two-phase and a one-phase challenge, both just bought. *)
InitPair ==
    /\ db = [c \in CIDs |-> NewChallenge(IF c = 1 THEN "two_static" ELSE "one_trailing", 0)]
    /\ sess = db
    /\ loaded = {}
    /\ todo = {}
    /\ running = FALSE
    /\ ticks = 0
    /\ role = "challenger"
    /\ violations = [c \in CIDs |-> <<>>]
    /\ steps = [c \in CIDs |-> 0]
    /\ pendingSteps = [c \in CIDs |-> 0]
    /\ master = [c \in CIDs |-> [subs |-> 0, funding |-> 0, scaling |-> 0]]
    /\ day = 0
    /\ todayPnl = [c \in CIDs |-> 0]
    /\ tradesToday = [c \in CIDs |-> 0]
    /\ cont = NoCont
    /\ obs = NoObs
    /\ seen = [c \in CIDs |-> 0]
    /\ freeIds = {}
    /\ calcIn = NoCalc
    /\ calcOut = NoCalcOut
    /\ tradesYesterday = [c \in CIDs |-> 0]
    /\ payouts = <<>>
    /\ req = [r \in Requests |-> NoReq]
    /\ QueueIdle
    /\ PaperIdle

(* The engine's runs over the two challenges. *)
NextPair ==
    \/ RunStart
    \/ RunEnd
    \/ \E c \in CIDs : TickFetchFailed(c)
    \/ \E c \in CIDs : TickViolation(c)
    \/ \E c \in CIDs : TickPromotePhase2(c)
    \/ \E c \in CIDs : TickPromoteFunded(c)
    \/ \E c \in CIDs : TickAfterFunded(c)
    \/ \E c \in CIDs : TickPlain(c)

SpecPair == InitPair /\ [][NextPair]_vars

(* ------------------- one tick on a stored challenge -------------------- *)

(* The peak_equity and daily_start_balance a stored challenge may carry. *)
StoredBalances == {10000, 12000}

(* Today's closed P&L at the tick: none, exactly 30 % of a profit of 800,  *)
(* and more than that.                                                     *)
StoredTodayPnls == {0, 240, 400}

(* daily_reset_at of a stored row: the column is nullable; otherwise the   *)
(* day of the last reset.                                                  *)
StoredResetAts == {NULL, 0}

(* The active user_challenges rows run_all_checks may select: any plan,    *)
(* status and counter of trading days, the funded fields set as            *)
(* _promote_to_funded leaves them.                                         *)
StoredRows ==
    { [plan |-> p, status |-> s,
       phase |-> IF s = "phase1" THEN 1 ELSE IF s = "phase2" THEN 2 ELSE NULL,
       account_mode |-> IF s = "funded" THEN "funded" ELSE "demo",
       real_account_id |-> (s = "funded"), real_api_key_enc |-> (s = "funded"),
       initial_balance |-> ChallengeType[p].account_size,
       current_balance |-> ChallengeType[p].account_size,
       peak_equity |-> pk, daily_start_balance |-> ds,
       daily_pnl |-> 0, total_pnl |-> 0,
       trading_days_count |-> n, daily_reset_at |-> r,
       funded_at |-> IF s = "funded" THEN 0 ELSE NULL,
       failed_at |-> NULL, failed_reason |-> "none"] :
      p \in AllPlanIds, s \in ActiveStatuses, n \in 0..MaxTradingDays,
      pk \in StoredBalances, ds \in StoredBalances, r \in StoredResetAts }

(* run_all_checks has just selected one stored challenge. *)
InitSnapshot ==
    /\ \E row \in StoredRows : db = [c \in CIDs |-> IF c = 1 THEN row ELSE AbsentRow]
    /\ sess = db
    /\ loaded = {1}
    /\ todo = {1}
    /\ running = TRUE
    /\ ticks = 0
    /\ role = IF db[1].status = "funded" THEN "funded_trader" ELSE "challenger"
    /\ violations = [c \in CIDs |-> <<>>]
    /\ steps = [c \in CIDs |-> 0]
    /\ pendingSteps = [c \in CIDs |-> 0]
    /\ master = [c \in CIDs |-> [subs |-> 0, funding |-> 0, scaling |-> 0]]
    /\ day \in 0..MaxDay
    /\ \E p \in StoredTodayPnls : todayPnl = [c \in CIDs |-> IF c = 1 THEN p ELSE 0]
    /\ tradesToday = [c \in CIDs |-> 0]
    /\ cont = NoCont
    /\ obs = NoObs
    /\ seen = [c \in CIDs |-> 0]
    /\ freeIds = {}
    /\ calcIn = NoCalc
    /\ calcOut = NoCalcOut
    /\ tradesYesterday = [c \in CIDs |-> 0]
    /\ payouts = <<>>
    /\ req = [r \in Requests |-> NoReq]
    /\ QueueIdle
    /\ PaperIdle

NextSnapshot ==
    \/ \E c \in CIDs : TickFetchFailed(c)
    \/ \E c \in CIDs : TickViolation(c)
    \/ \E c \in CIDs : TickPromotePhase2(c)
    \/ \E c \in CIDs : TickPromoteFunded(c)
    \/ \E c \in CIDs : TickAfterFunded(c)
    \/ \E c \in CIDs : TickPlain(c)
    \/ RunEnd

SpecSnapshot == InitSnapshot /\ [][NextSnapshot]_vars

(* --------------------- the drawdown functions alone -------------------- *)

(* Balances a challenge may carry, zero included. *)
CalcBalances == {0, 9500, 10000, 12000}

(* Equities the exchange may report: a wiped-out and an overdrawn account  *)
(* included.                                                               *)
CalcEquities == {-500, 0, 9000, 9500, 10000, 10800, 12000}

CalcInputs ==
    [daily_start_balance : CalcBalances, initial_balance : CalcBalances,
     peak_equity : CalcBalances, drawdown_type : {"static", "trailing"},
     equity : CalcEquities]

InitCalc ==
    /\ EngineInit
    /\ freeIds = {}
    /\ calcIn \in CalcInputs
    /\ calcOut = NoCalcOut

(* _calc_daily_drawdown and _calc_total_drawdown applied to the snapshot. *)
CalcDrawdowns ==
    /\ ~calcOut.done
    /\ calcOut' = [done |-> TRUE,
                   daily |-> _calc_daily_drawdown(calcIn, calcIn.equity),
                   total |-> _calc_total_drawdown(calcIn, calcIn, calcIn.equity)]
    /\ UNCHANGED <<db, sess, loaded, todo, running, ticks, role, violations, steps,
                   pendingSteps, master, day, todayPnl, tradesToday, cont, obs,
                   seen, freeIds, calcIn, tradesYesterday, payouts, req,
                   bot_notifications, handlers, pushed, consumed,
                accounts, trades, today, resp, inflight>>

NextCalc == CalcDrawdowns

SpecCalc == InitCalc /\ [][NextCalc]_vars

(* ------------------------- the scaling step alone ---------------------- *)

(* Account sizes and balances of a funded challenge: the plan's size, the  *)
(* size after one step, sizes next to the cap and the cap itself.          *)
ScalingSizes == {10000, 12500, 1800000, 2000000}

(* The tick's total_pnl: a loss, just below and at 10 % of 10000, 20 and   *)
(* 25 % of it, 10 and 20 % of 1800000.                                     *)
ScalingPnls == {-500, 999, 1000, 2000, 2500, 180000, 360000}

(* The challenge as step 9 finds it, the ScalingStep and Violation rows it *)
(* reads and the answer of the transfer.                                   *)
ScalingInputs ==
    [status : {"phase2", "funded"},
     current_balance : ScalingSizes, initial_balance : ScalingSizes,
     peak_equity : ScalingSizes, total_pnl : ScalingPnls,
     nsteps : 0..MaxSteps, nviol : 0..1, transfer : {"ok", "failed"}]

InitScaling ==
    /\ EngineInit
    /\ freeIds = {}
    /\ calcIn \in ScalingInputs
    /\ calcOut = [done |-> FALSE, out |-> NoScaling(calcIn)]

(* Step 9 of _check_challenge applied to the snapshot. *)
CheckScaling ==
    /\ ~calcOut.done
    /\ calcOut' = [done |-> TRUE,
                   out |-> ScalingOfTick(calcIn, calcIn.total_pnl, calcIn.nsteps,
                                         calcIn.nviol, calcIn.transfer)]
    /\ UNCHANGED <<db, sess, loaded, todo, running, ticks, role, violations, steps,
                   pendingSteps, master, day, todayPnl, tradesToday, cont, obs,
                   seen, freeIds, calcIn, tradesYesterday, payouts, req,
                   bot_notifications, handlers, pushed, consumed,
                accounts, trades, today, resp, inflight>>

NextScaling == CheckScaling

SpecScaling == InitScaling /\ [][NextScaling]_vars

(* --------------------------- payout requests --------------------------- *)

(* total_pnl of the challenge: a loss, none, less than the minimum payout  *)
(* after the split, and a profit of 1000.                                  *)
PayoutPnls == {-200, 0, 60, 1000}

(* Amounts asked for: below and at the minimum, at and above 80 % of 1000. *)
PayoutAmounts == {49, 50, 800, 801}

(* The challenge the requests name: funded with some total_pnl, or failed. *)
PayoutChallenges ==
    { [_promote_to_funded(NewChallenge("one_trailing", 0), 0) EXCEPT
         !.total_pnl = pnl, !.current_balance = 10000 + pnl, !.status = st] :
      pnl \in PayoutPnls, st \in {"funded", "failed"} }

(* Indices of the payouts rows with one of the given statuses. *)
PayoutsWith(rows, statuses) ==
    { i \in DOMAIN rows : rows[i].status \in statuses }

RECURSIVE SumNet(_, _)
SumNet(rows, idx) ==
    IF idx = {} THEN 0
    ELSE LET i == CHOOSE x \in idx : TRUE
         IN  rows[i].net_amount + SumNet(rows, idx \ {i})

(* GET /payouts/available as request_payout calls it: 403 for a role that  *)
(* may not ask, 404 without a funded challenge, 500 when the query for the *)
(* pending payout finds more than one row (scalar_one_or_none).            *)
get_available_payout(user_role, challenge, rows) ==
    LET available == IF challenge.total_pnl > 0
                     THEN (challenge.total_pnl * PROFIT_SPLIT_PCT) \div 100 ELSE 0
        already_paid == SumNet(rows, PayoutsWith(rows, {"approved", "sent"}))
        left == Max(0, available - already_paid)
        pending == PayoutsWith(rows, {"pending"})
    IN  IF user_role \notin {"funded_trader", "elite_trader", "admin", "super_admin"}
        THEN [code |-> 403, available_amount |-> 0, can_request |-> FALSE]
        ELSE IF challenge.status # "funded"
        THEN [code |-> 404, available_amount |-> 0, can_request |-> FALSE]
        ELSE IF Cardinality(pending) > 1
        THEN [code |-> 500, available_amount |-> 0, can_request |-> FALSE]
        ELSE [code |-> 200, available_amount |-> left,
              can_request |-> (left >= MIN_PAYOUT_AMOUNT /\ pending = {})]

(* The checks of POST /payouts/request: the status code it answers with,   *)
(* 200 standing for "goes on to insert the payout".                        *)
request_payout_checks(user_role, challenge, rows, amount) ==
    LET av == get_available_payout(user_role, challenge, rows)
    IN  IF user_role \notin {"funded_trader", "elite_trader", "admin", "super_admin"}
        THEN 403
        ELSE IF amount < MIN_PAYOUT_AMOUNT THEN 400
        ELSE IF av.code # 200 THEN av.code
        ELSE IF ~av.can_request THEN 400
        ELSE IF amount > av.available_amount THEN 400
        ELSE 200

InitPayout ==
    /\ \E row \in PayoutChallenges :
         db = [c \in CIDs |-> IF c = 1 THEN row ELSE AbsentRow]
    /\ sess = db
    /\ loaded = {}
    /\ todo = {}
    /\ running = FALSE
    /\ ticks = 0
    /\ role = "funded_trader"
    /\ violations = [c \in CIDs |-> <<>>]
    /\ steps = [c \in CIDs |-> 0]
    /\ pendingSteps = [c \in CIDs |-> 0]
    /\ master = [c \in CIDs |-> [subs |-> 1, funding |-> 1, scaling |-> 0]]
    /\ day = 0
    /\ todayPnl = [c \in CIDs |-> 0]
    /\ tradesToday = [c \in CIDs |-> 0]
    /\ cont = NoCont
    /\ obs = NoObs
    /\ seen = [c \in CIDs |-> 0]
    /\ freeIds = {}
    /\ calcIn = NoCalc
    /\ calcOut = NoCalcOut
    /\ tradesYesterday = [c \in CIDs |-> 0]
    /\ payouts = <<>>
    /\ req = [r \in Requests |-> NoReq]
    /\ QueueIdle
    /\ PaperIdle

PayoutUnchanged ==
    UNCHANGED <<db, sess, loaded, todo, running, ticks, role, violations, steps,
                pendingSteps, master, day, todayPnl, tradesToday, cont, obs,
                seen, freeIds, calcIn, calcOut, tradesYesterday,
                bot_notifications, handlers, pushed, consumed,
                accounts, trades, today, resp, inflight>>

(* POST /payouts/request up to the point where the Payout is constructed:  *)
(* the checks read the committed rows; a failing check answers at once.    *)
request_payout_check(r, amount) ==
    /\ req[r].pc = "idle"
    /\ LET code == request_payout_checks(role, db[1], payouts, amount)
       IN  req' = [req EXCEPT ![r] =
                     IF code = 200
                     THEN [pc |-> "checked", amount |-> amount, result |-> "none"]
                     ELSE [pc |-> "done", amount |-> amount, result |-> "rejected"]]
    /\ UNCHANGED payouts
    /\ PayoutUnchanged

(* session.add(payout); session.commit() of a request that passed the      *)
(* checks.                                                                 *)
request_payout_commit(r) ==
    /\ req[r].pc = "checked"
    /\ payouts' = Append(payouts, [status |-> "pending", amount |-> req[r].amount,
                                   net_amount |-> req[r].amount])
    /\ req' = [req EXCEPT ![r] = [@ EXCEPT !.pc = "done", !.result = "created"]]
    /\ PayoutUnchanged

(* POST /admin/payouts/{id}/approve, with or without a tx_hash. *)
approve_payout(i, tx_hash) ==
    /\ i \in DOMAIN payouts
    /\ payouts[i].status = "pending"
    /\ payouts' = [payouts EXCEPT ![i].status = IF tx_hash THEN "sent" ELSE "approved"]
    /\ UNCHANGED req
    /\ PayoutUnchanged

(* POST /admin/payouts/{id}/reject *)
reject_payout(i) ==
    /\ i \in DOMAIN payouts
    /\ payouts[i].status = "pending"
    /\ payouts' = [payouts EXCEPT ![i].status = "rejected"]
    /\ UNCHANGED req
    /\ PayoutUnchanged

NextPayout ==
    \/ \E r \in Requests, amount \in PayoutAmounts : request_payout_check(r, amount)
    \/ \E r \in Requests : request_payout_commit(r)
    \/ \E i \in 1..MaxRequests, tx_hash \in BOOLEAN : approve_payout(i, tx_hash)
    \/ \E i \in 1..MaxRequests : reject_payout(i)
    \/ RunStart
    \/ RunEnd
    \/ \E c \in CIDs : TickFetchFailed(c)
    \/ \E c \in CIDs : TickViolation(c)
    \/ \E c \in CIDs : TickPlain(c)

SpecPayout == InitPayout /\ [][NextPayout]_vars

(* ------------------------------ properties ----------------------------- *)

(* Outcomes of a tick that got a balance and evaluated the rules. *)
Evaluated == {"failed", "ok", "promoted", "error"}

(* The step is the check of challenge c from its start (not the remainder  *)
(* of a tick that has just promoted to funded).                            *)
TickOf(c) ==
    /\ cont = NoCont
    /\ c \in todo
    /\ obs'.cid = c
    /\ obs'.outcome \in Evaluated

(* phase1 -> phase2 -> funded, a one-phase plan going phase1 -> funded,    *)
(* and any active status -> failed.                                        *)
StatusGraph(ct) ==
    (IF ct.is_one_phase THEN {<<"phase1", "funded">>} ELSE {<<"phase1", "phase2">>})
    \cup {<<"phase2", "funded">>}
    \cup {<<s, "failed">> : s \in ActiveStatuses}

(* C1: every change of a committed challenge status is an edge of the      *)
(* graph phase1 -> phase2 -> funded (phase1 -> funded for a one-phase      *)
(* plan) or leads from an active status to failed; a challenge never moves *)
(* backwards and a failed or completed challenge never changes status.     *)
C1_StatusGraph ==
    [][\A c \in CIDs :
         (db[c].status # "absent" /\ db'[c].status # db[c].status)
         => <<db[c].status, db'[c].status>> \in StatusGraph(ChallengeType[db[c].plan])]_vars

(* A challenge went through both phases, was funded and then failed. *)
C1_Witness ==
    \E c \in CIDs : /\ db[c].status = "failed"
                    /\ db[c].funded_at # NULL
                    /\ ~ChallengeType[db[c].plan].is_one_phase

(* C2: the rules are evaluated daily loss, total loss, max trading days,   *)
(* consistency, promotion, and the first that matches decides: a daily     *)
(* loss at its limit is reported even if the total loss is at its limit    *)
(* too, and on any violation the challenge is failed and the tick applies  *)
(* neither a promotion nor a scaling step, whatever the profit.            *)
C2_FirstMatchWins ==
    [][\A c \in CIDs : TickOf(c) =>
         LET ct == ChallengeType[sess[c].plan]
             daily == obs'.daily_dd >= ct.max_daily_loss
             total == obs'.total_dd >= ct.max_total_loss
             overdue == ct.max_trading_days # 0
                        /\ sess[c].trading_days_count > ct.max_trading_days
             v == obs'.viol
         IN  /\ daily => v = "daily_loss"
             /\ (~daily /\ total) => v = "total_loss"
             /\ (~daily /\ ~total /\ overdue) => v = "max_trading_days"
             /\ v = "consistency" => (~daily /\ ~total /\ ~overdue)
             /\ v # "none" =>
                  /\ db'[c].status = "failed"
                  /\ obs'.decision = "none"
                  /\ ~obs'.scaled
                  /\ steps'[c] = steps[c] /\ pendingSteps'[c] = pendingSteps[c]
                  /\ master'[c] = master[c]
                  /\ obs'.notes \cap {"phase1_passed", "funded", "scaling"} = {}
             /\ db'[c].status \in {"phase2", "funded"} /\ db'[c].status # db[c].status
                  => v = "none"]_vars

(* A tick failed a challenge for its daily loss although the total loss    *)
(* was at its limit too and the profit target was met.                     *)
C2_Witness ==
    /\ obs.outcome = "failed"
    /\ obs.viol = "daily_loss"
    /\ obs.total_dd >= ChallengeType[db[obs.cid].plan].max_total_loss
    /\ obs.total_pnl * 10000
         >= db[obs.cid].initial_balance * ChallengeType[db[obs.cid].plan].profit_target_p1
    /\ db[obs.cid].status = "failed"

(* C3: a daily drawdown exactly at max_daily_loss is a daily_loss          *)
(* violation, a total drawdown exactly at max_total_loss is a violation    *)
(* too (total_loss, unless the daily rule, which comes first, fires), and  *)
(* drawdowns strictly below both limits give no drawdown violation.        *)
C3_InclusiveLimits ==
    obs.outcome \in Evaluated =>
      LET ct == ChallengeType[db[obs.cid].plan] IN
      /\ obs.daily_dd = ct.max_daily_loss => obs.viol = "daily_loss"
      /\ obs.total_dd = ct.max_total_loss =>
           /\ obs.viol \in {"daily_loss", "total_loss"}
           /\ obs.daily_dd < ct.max_daily_loss => obs.viol = "total_loss"
      /\ (obs.daily_dd < ct.max_daily_loss /\ obs.total_dd < ct.max_total_loss)
           => obs.viol \notin {"daily_loss", "total_loss"}

(* A static plan failed with the total drawdown exactly at the limit. *)
C3_Witness ==
    /\ obs.outcome = "failed"
    /\ obs.viol = "total_loss"
    /\ obs.total_dd = ChallengeType[db[obs.cid].plan].max_total_loss
    /\ ChallengeType[db[obs.cid].plan].drawdown_type = "static"

(* C4 as stated: across ticks and transitions, promotions and scaling      *)
(* included, the stored peak_equity never decreases and is always at least *)
(* initial_balance.                                                        *)
C4_PeakNeverDecreases ==
    [][\A c \in CIDs :
         db[c].status # "absent"
         => /\ db'[c].peak_equity >= db[c].peak_equity
            /\ db'[c].peak_equity >= db'[c].initial_balance]_vars

(* The peak_equity of every existing challenge, in the session and in the  *)
(* database, is at least initial_balance; the session's object is at least *)
(* every equity observed since the last promotion, and so is the stored    *)
(* row once the run has committed.                                         *)
PeakCoversObserved ==
    \A c \in CIDs :
      db[c].status # "absent"
      => /\ db[c].peak_equity >= db[c].initial_balance
         /\ sess[c].peak_equity >= sess[c].initial_balance
         /\ sess[c].peak_equity >= seen[c]
         /\ ~running => db[c].peak_equity >= seen[c]

(* C4: the stored peak_equity decreases only when a promotion (to phase2   *)
(* or to funded) resets it to initial_balance; it is always at least       *)
(* initial_balance and, once the run has committed, at least every equity  *)
(* the engine has observed since the last promotion.                       *)
C4_PeakResetOnlyByPromotion ==
    /\ []PeakCoversObserved
    /\ [][\A c \in CIDs :
            (db[c].status # "absent" /\ db'[c].peak_equity < db[c].peak_equity)
            => /\ db'[c].status # db[c].status
               /\ db'[c].status \in {"phase2", "funded"}
               /\ db'[c].peak_equity = db'[c].initial_balance]_vars

(* A promotion has just been committed by a tick that observed an equity   *)
(* above the peak_equity now stored.                                       *)
C4_Witness ==
    /\ obs.outcome = "promoted"
    /\ db[obs.cid].status \in {"phase2", "funded"}
    /\ obs.equity > db[obs.cid].peak_equity

(* C5: the total drawdown of a tick is measured from a base: under a       *)
(* trailing plan the highest equity observed so far, this tick's included  *)
(* (never less than initial_balance); under a static plan initial_balance  *)
(* whatever the peak; it is 0 when the equity is at or above the base.     *)
(* With limit 10 % a trailing challenge that saw 12000 and now sees 10800  *)
(* is exactly at the limit and fails with total_loss.                      *)
C5_DrawdownBase ==
    [][\A c \in CIDs : TickOf(c) =>
         LET ct == ChallengeType[sess[c].plan]
             e == obs'.equity
             base == IF ct.drawdown_type = "trailing"
                     THEN Max(Max(sess[c].initial_balance, seen[c]), e)
                     ELSE sess[c].initial_balance
         IN  /\ obs'.total_dd = IF e >= base THEN 0 ELSE ((base - e) * 10000) \div base
             /\ (ct.drawdown_type = "trailing" /\ seen[c] = 12000 /\ e = 10800
                 /\ sess[c].initial_balance = 10000 /\ ct.max_total_loss = 1000)
                => /\ obs'.total_dd = ct.max_total_loss
                   /\ obs'.viol \in {"daily_loss", "total_loss"}
                   /\ obs'.daily_dd < ct.max_daily_loss => obs'.viol = "total_loss"]_vars

(* A trailing challenge that had seen 12000 failed with total_loss at      *)
(* 10800, exactly at the limit.                                            *)
C5_Witness ==
    /\ obs.outcome = "failed"
    /\ obs.viol = "total_loss"
    /\ obs.equity = 10800
    /\ seen[obs.cid] = 12000
    /\ obs.total_dd = ChallengeType[db[obs.cid].plan].max_total_loss
    /\ ChallengeType[db[obs.cid].plan].drawdown_type = "trailing"

C7_PromotionRule ==
    [][\A c \in CIDs : TickOf(c) =>
         LET ct == ChallengeType[sess[c].plan]
             st == sess[c].status
             target_pct == IF st = "phase1" THEN ct.profit_target_p1
                           ELSE ct.profit_target_p2
             eligible == /\ st \in {"phase1", "phase2"}
                         /\ obs'.total_pnl * 10000 >= sess[c].initial_balance * target_pct
                         /\ sess[c].trading_days_count >= ct.min_trading_days
             dest == IF st = "phase1" /\ ~ct.is_one_phase THEN "phase2" ELSE "funded"
             promoted == db'[c].status # db[c].status
                         /\ db'[c].status \in {"phase2", "funded"}
             call_failed == obs'.closeRaised # "none"
                            \/ obs'.provision \notin {"none", "ok"}
         IN  /\ obs'.decision # "none" <=> (eligible /\ obs'.viol = "none")
             /\ obs'.decision # "none" => obs'.decision = dest
             /\ promoted <=> (obs'.decision # "none" /\ ~call_failed)
             /\ promoted => db'[c].status = dest
             /\ st = "funded" => ~promoted]_vars

(* The target of phase 1 was met but the trading days were not: the tick   *)
(* left the challenge in phase1.                                           *)
C7_Witness ==
    /\ obs.outcome = "ok"
    /\ obs.decision = "none"
    /\ db[obs.cid].status = "phase1"
    /\ obs.total_pnl * 10000
         >= db[obs.cid].initial_balance * ChallengeType[db[obs.cid].plan].profit_target_p1
    /\ db[obs.cid].trading_days_count < ChallengeType[db[obs.cid].plan].min_trading_days

(* C8: a tick that detects a violation commits the challenge as failed     *)
(* with exactly one Violation, failed_at and failed_reason set, whether or *)
(* not closing the positions succeeds; a failure to close one symbol does  *)
(* not keep the remaining symbols from being closed.                       *)
C8_BestEffortClose ==
    obs.outcome = "failed" =>
      /\ db[obs.cid].status = "failed"
      /\ Len(violations[obs.cid]) = 1
      /\ violations[obs.cid][1] = obs.viol
      /\ db[obs.cid].failed_at # NULL
      /\ db[obs.cid].failed_reason = obs.viol
      /\ obs.closeFailed # {} => obs.unattempted = {}

(* C9: the commit that moves a challenge from phase1 to phase2 stores      *)
(* status phase2, phase 2, trading_days_count, daily_pnl and total_pnl 0,  *)
(* and current_balance, peak_equity and daily_start_balance equal to the   *)
(* unchanged initial_balance; the phase-passed notification is emitted;    *)
(* all this whether or not the demo-balance reset succeeds.                *)
C9_Phase2Reset ==
    [][\A c \in CIDs :
         (db[c].status = "phase1" /\ db'[c].status = "phase2")
         => /\ db'[c].phase = 2
            /\ db'[c].trading_days_count = 0
            /\ db'[c].daily_pnl = 0 /\ db'[c].total_pnl = 0
            /\ db'[c].initial_balance = db[c].initial_balance
            /\ db'[c].current_balance = db'[c].initial_balance
            /\ db'[c].peak_equity = db'[c].initial_balance
            /\ db'[c].daily_start_balance = db'[c].initial_balance
            /\ obs'.cid = c
            /\ "phase1_passed" \in obs'.notes
            /\ obs'.topup \in {"ok", "failed"}]_vars

(* A challenge was promoted to phase2 by a tick that saw an equity above   *)
(* initial_balance and whose demo-balance reset failed.                    *)
C9_Witness ==
    /\ obs.outcome = "promoted"
    /\ obs.decision = "phase2"
    /\ obs.topup = "failed"
    /\ db[obs.cid].status = "phase2"
    /\ obs.equity > db[obs.cid].initial_balance

(* A committed funded challenge is in funded mode with a real account, real *)
(* credentials and funded_at, and its user is a funded_trader; a challenge  *)
(* in phase1 or phase2 is never in funded mode.                             *)
FundedIsProvisioned ==
    \A c \in CIDs :
      /\ db[c].status = "funded"
         => /\ db[c].account_mode = "funded"
            /\ db[c].real_account_id
            /\ db[c].real_api_key_enc
            /\ db[c].funded_at # NULL
            /\ role = "funded_trader"
      /\ db[c].status \in {"phase1", "phase2"} => db[c].account_mode # "funded"

(* C10: FundedIsProvisioned holds in every committed state; the commit     *)
(* that makes a challenge funded stores its counters reset; and a tick     *)
(* whose promotion to funded fails at any step leaves status, account_mode *)
(* and credentials as they were, in the database and in the session.       *)
C10_FundedProvisioning ==
    /\ []FundedIsProvisioned
    /\ [][\A c \in CIDs :
            /\ (db[c].status # "funded" /\ db'[c].status = "funded")
               => /\ db'[c].trading_days_count = 0
                  /\ db'[c].daily_pnl = 0 /\ db'[c].total_pnl = 0
                  /\ obs'.provision = "ok"
            /\ (TickOf(c) /\ obs'.decision = "funded" /\ obs'.outcome = "error")
               => /\ db'[c] = db[c]
                  /\ sess'[c].status = sess[c].status
                  /\ sess'[c].account_mode = sess[c].account_mode
                  /\ sess'[c].real_account_id = sess[c].real_account_id
                  /\ sess'[c].real_api_key_enc = sess[c].real_api_key_enc
                  /\ role' = role]_vars

(* The provisioning got as far as funding the sub-account and then failed  *)
(* to create its API key: the challenge is still in its evaluation phase.  *)
C10_Witness ==
    /\ obs.outcome = "error"
    /\ obs.provision = "fail_key"
    /\ master[obs.cid].funding = 1
    /\ db[obs.cid].status \in {"phase1", "phase2"}
    /\ db[obs.cid].account_mode = "demo"

(* C11: whenever the last tick or request dispatched notifications, the    *)
(* state of the challenge they report is the committed one: nothing is     *)
(* dispatched by a tick that ends without committing.                      *)
C11_NotifyAfterCommit ==
    obs.notes # {} => db[obs.cid] = sess[obs.cid]

(* C12: after a tick that ended in an exchange failure (the balance fetch  *)
(* or a later call), no later commit of the session changes the stored row *)
(* of that challenge.                                                      *)
C12_FailedTickCommitsNothing ==
    [][\A c \in CIDs :
         (obs.cid = c /\ obs.outcome \in {"skipped", "error"})
         => db'[c] = db[c]]_vars

(* C13: for every challenge the master account is debited for the funded   *)
(* account at most once and at most one funded sub-account is created,     *)
(* however often the promotion is retried.                                 *)
C13_ProvisioningIdempotent ==
    \A c \in CIDs : master[c].subs <= 1 /\ master[c].funding <= 1

(* C14: a tick that evaluates a challenge whose daily_reset_at lies in an  *)
(* earlier day, or is not set, sets daily_reset_at to now and              *)
(* daily_start_balance to the balance it fetched; a tick on the day of     *)
(* daily_reset_at leaves both as they were (a promotion apart, which puts  *)
(* daily_start_balance back to initial_balance); and after any tick a      *)
(* further reset check on the same day changes nothing.                    *)
C14_DailyResetOncePerDay ==
    [][\A c \in CIDs : TickOf(c) =>
         LET old == sess[c]
             new == sess'[c]
             promoted == obs'.outcome = "promoted"
         IN  /\ (old.daily_reset_at = NULL \/ day > old.daily_reset_at)
                 => /\ new.daily_reset_at = day
                    /\ (~promoted /\ ~obs'.scaled)
                        => /\ new.daily_start_balance = new.current_balance
                           /\ new.daily_pnl = obs'.equity - new.daily_start_balance
             /\ (old.daily_reset_at # NULL /\ day <= old.daily_reset_at)
                 => /\ new.daily_reset_at = old.daily_reset_at
                    /\ ~promoted
                        => new.daily_start_balance = old.daily_start_balance
             /\ \A b \in StoredBalances :
                   _daily_reset_check(new, b, day) = new]_vars

(* A tick on a later day than any stored daily_reset_at has run and moved  *)
(* daily_start_balance to the fetched balance, which no stored row held.   *)
C14_Witness ==
    /\ obs.outcome = "ok"
    /\ day > 0
    /\ sess[1].daily_reset_at = day
    /\ sess[1].daily_start_balance = sess[1].current_balance
    /\ sess[1].daily_start_balance \notin StoredBalances

(* C15: a tick that performs the daily reset adds one to                   *)
(* trading_days_count exactly when a trade was closed during the day that  *)
(* ended and no violation was recorded, and leaves it alone otherwise      *)
(* (a promotion apart, which sets the counter to zero).                    *)
C15_TradingDayCounted ==
    [][\A c \in CIDs :
         (TickOf(c) /\ obs'.outcome = "ok" /\ day > sess[c].daily_reset_at)
         => sess'[c].trading_days_count
              = sess[c].trading_days_count
                + (IF tradesYesterday[c] > 0 /\ violations[c] = <<>>
                   THEN 1 ELSE 0)]_vars

(* C16: a tick reports a consistency violation only for a plan with the    *)
(* consistency rule, a positive total_pnl and a sum of today's closed      *)
(* trades strictly above 30 % of total_pnl; and when no earlier rule       *)
(* (drawdowns, max trading days) fires, it reports one whenever those      *)
(* three hold.  Exactly 30 %, no trade today and total_pnl <= 0 give none. *)
C16_ConsistencyRule ==
    [][\A c \in CIDs : TickOf(c) =>
         LET ct == ChallengeType[sess[c].plan]
             earlier == \/ DrawdownViolation(ct, obs'.daily_dd, obs'.total_dd) # "none"
                        \/ /\ ct.max_trading_days # 0
                           /\ sess[c].trading_days_count > ct.max_trading_days
             over == todayPnl[c] * 100 > obs'.total_pnl * 30
             applies == ct.consistency_rule /\ obs'.total_pnl > 0
         IN  /\ obs'.viol = "consistency" => (applies /\ over /\ ~earlier)
             /\ (applies /\ over /\ ~earlier) => obs'.viol = "consistency"
             /\ (~earlier /\ (~applies \/ ~over)) => obs'.viol = "none"]_vars

(* A challenge was failed for consistency: today's trades made 400 of a    *)
(* total profit of less than 1334.                                         *)
C16_Witness ==
    /\ obs.outcome = "failed"
    /\ obs.viol = "consistency"
    /\ obs.total_pnl > 0
    /\ todayPnl[obs.cid] * 100 > obs.total_pnl * 30
    /\ db[obs.cid].failed_reason = "consistency"

(* C17: a tick reports a max_trading_days violation exactly when the plan  *)
(* sets max_trading_days, trading_days_count is strictly greater than it   *)
(* and no drawdown violation fires first; a count equal to or below the    *)
(* maximum, and a plan without a maximum whatever the count, give none.    *)
C17_MaxTradingDays ==
    [][\A c \in CIDs : TickOf(c) =>
         LET ct == ChallengeType[sess[c].plan]
             n == sess[c].trading_days_count
             drawdown == DrawdownViolation(ct, obs'.daily_dd, obs'.total_dd) # "none"
         IN  /\ obs'.viol = "max_trading_days"
                 <=> (ct.max_trading_days # 0 /\ n > ct.max_trading_days /\ ~drawdown)
             /\ obs'.viol = "max_trading_days"
                 => /\ db'[c].status = "failed"
                    /\ db'[c].failed_reason = "max_trading_days"]_vars

(* A challenge of a plan with at most one trading day was failed with two  *)
(* trading days counted.                                                   *)
C17_Witness ==
    /\ obs.outcome = "failed"
    /\ obs.viol = "max_trading_days"
    /\ ChallengeType[db[obs.cid].plan].max_trading_days # 0
    /\ db[obs.cid].trading_days_count > ChallengeType[db[obs.cid].plan].max_trading_days
    /\ db[obs.cid].failed_reason = "max_trading_days"

(* C18: step 9 of a tick triggers a scaling event (adds a ScalingStep,     *)
(* asks for the transfer) only for a funded challenge whose balance is     *)
(* below MAX_ACCOUNT_SIZE, whose total_pnl is at least 10 % of             *)
(* initial_balance times the number of existing steps plus one, and which  *)
(* has no Violation since the last step.                                   *)
C18_ScalingTrigger ==
    (calcOut.done /\ calcOut.out.step = 1) =>
        /\ calcIn.status = "funded"
        /\ calcIn.current_balance < 2000000
        /\ calcIn.total_pnl * 100 >= 10 * (calcIn.nsteps + 1) * calcIn.initial_balance
        /\ calcIn.nviol = 0

(* The second step of a funded challenge was triggered at 20 % of profit. *)
C18_Witness ==
    /\ calcOut.done
    /\ calcOut.out.step = 1
    /\ calcIn.status = "funded"
    /\ calcIn.nsteps = 1
    /\ calcIn.total_pnl * 100 = 20 * calcIn.initial_balance

(* C19: a scaling event whose transfer succeeds takes                      *)
(* new_size = min(current_balance * 1.25, 2,000,000), hands                *)
(* new_size - current_balance to the transfer, numbers its ScalingStep     *)
(* with the count of existing steps plus one and records both sizes in     *)
(* it, and leaves initial_balance = current_balance = new_size and         *)
(* peak_equity = max(peak_equity, new_size); no size exceeds 2,000,000.    *)
C19_ScalingEffect ==
    (calcOut.done /\ calcOut.out.transferred = 1) =>
        LET new_size == Min((calcIn.current_balance * 125) \div 100, 2000000)
            o == calcOut.out
        IN  /\ o.amount = new_size - calcIn.current_balance
            /\ o.amount > 0
            /\ o.step = 1
            /\ o.number = calcIn.nsteps + 1
            /\ o.before = calcIn.current_balance
            /\ o.after = new_size
            /\ o.ch.initial_balance = new_size
            /\ o.ch.current_balance = new_size
            /\ o.ch.peak_equity = Max(calcIn.peak_equity, new_size)
            /\ o.ch.current_balance <= 2000000
            /\ o.ch.status = calcIn.status

(* An account of 1,800,000 was scaled: 2,250,000 is capped at 2,000,000. *)
C19_Witness ==
    /\ calcOut.done
    /\ calcOut.out.transferred = 1
    /\ calcIn.current_balance = 1800000
    /\ calcOut.out.ch.current_balance = 2000000
    /\ calcOut.out.amount = 200000

(* C20: whatever the interleaving of the payout requests, the challenge    *)
(* never has two pending payouts at the same time.                         *)
C20_SinglePending ==
    Cardinality(PayoutsWith(payouts, {"pending"})) <= 1

(* C21: for a funded challenge the payouts approved or sent never add up   *)
(* to more than profit_split_pct per cent of its positive total_pnl.       *)
C21_PaidWithinSplit ==
    db[1].status = "funded"
    => SumNet(payouts, PayoutsWith(payouts, {"approved", "sent"})) * 100
         <= PROFIT_SPLIT_PCT * Max(0, db[1].total_pnl)

(* C22: a user never holds two active challenges (phase1, phase2 or        *)
(* funded) of the same plan.                                               *)
C22_OneActivePerPlan ==
    \A c, d \in CIDs :
        (c # d /\ db[c].status \in ActiveStatuses /\ db[d].status \in ActiveStatuses)
        => db[c].plan # db[d].plan

(* C23: a run of the rule-check loop starts only while no run is active,   *)
(* within a run the list of challenges still to check only shrinks, every  *)
(* check takes exactly one challenge off it, and the remainder of a tick   *)
(* that promoted to funded runs before anything else of the engine: no two *)
(* ticks of a challenge overlap.                                           *)
C23_TicksSequential ==
    [][/\ (running /\ running') => (todo' \subseteq todo /\ loaded' = loaded)
       /\ (running' /\ loaded' # loaded) => (~running /\ todo' = loaded')
       /\ ticks' # ticks
           => /\ running /\ ticks' = ticks + 1
              /\ \E c \in todo : todo' = todo \ {c} /\ obs'.cid = c
       /\ (cont # NoCont /\ <<db, sess, todo, running, ticks>>' # <<db, sess, todo, running, ticks>>)
           => /\ cont' = NoCont
              /\ todo' = todo \ {cont.cid}
              /\ ticks' = ticks + 1]_vars

(* A second run has checked the challenge that the first run had checked. *)
C23_Witness ==
    /\ running
    /\ ticks = 2
    /\ loaded = {1}
    /\ todo = {}
    /\ obs.cid = 1

(* C24: a check that ends in an error (the balance cannot be fetched, a    *)
(* position cannot be closed, the funded account cannot be provisioned)    *)
(* ends neither the run nor the scheduler: the other challenges selected   *)
(* stay on the run's list untouched, and the run ends only when every      *)
(* selected challenge has been checked.                                    *)
C24_ErrorsCaughtPerChallenge ==
    [][/\ \A c \in CIDs :
            (Checkable(c) /\ obs'.cid = c /\ obs'.outcome \in {"skipped", "error"})
            => /\ running'
               /\ loaded' = loaded
               /\ todo' = todo \ {c}
               /\ cont' = NoCont
               /\ \A d \in todo' : db'[d] = db[d] /\ sess'[d] = sess[d]
       /\ (running /\ ~running') => (todo = {} /\ cont = NoCont)]_vars

(* In the first run the provisioning of challenge 2 failed after the       *)
(* sub-account was created, and challenge 1 was checked after it.          *)
C24_Witness ==
    /\ running
    /\ loaded = {1, 2}
    /\ ticks = 2
    /\ todo = {}
    /\ master[2].subs = 1
    /\ db[2].status = "phase1"
    /\ obs.cid = 1
    /\ obs.outcome = "ok"

(* C27: a tick that fails a challenge sets the user's role to guest        *)
(* exactly when the user has no other challenge in phase1, phase2 or       *)
(* funded, and leaves the role as it is while one remains.                 *)
C27_RoleOnFail ==
    [][\A c \in CIDs :
         (TickOf(c) /\ obs'.outcome = "failed")
         => LET other_active ==
                  \E d \in CIDs \ {c} : db'[d].status \in ActiveStatuses
            IN  /\ db'[c].status = "failed"
                /\ ~other_active => role' = "guest"
                /\ other_active => role' = role]_vars

(* One challenge was failed while the other was funded: the user is still  *)
(* a funded trader.                                                        *)
C27_Witness ==
    /\ obs.outcome = "failed"
    /\ db[obs.cid].status = "failed"
    /\ \E d \in CIDs \ {obs.cid} : db[d].status = "funded"
    /\ role = "funded_trader"

(* C25: the tick that fails a challenge records exactly one Violation and  *)
(* sends exactly one violation notification; a violation notification is   *)
(* sent by no other tick; and once a challenge is failed no later step     *)
(* checks it, notifies about it, adds a Violation or changes its row.      *)
C25_SingleTerminalNotification ==
    [][\A c \in CIDs :
         /\ (TickOf(c) /\ db'[c].status = "failed")
             => /\ "violation" \in obs'.notes
                /\ Len(violations'[c]) = 1
                /\ Len(violations[c]) = 0
         /\ (obs'.cid = c /\ obs' # obs /\ "violation" \in obs'.notes)
             => (db[c].status # "failed" /\ db'[c].status = "failed")
         /\ db[c].status = "failed"
             => /\ db'[c] = db[c]
                /\ violations'[c] = violations[c]
                /\ c \notin todo'
                /\ obs' # obs => obs'.cid # c]_vars

(* The challenge was failed in one run; a later run has started and has    *)
(* not selected it, and it still has its single Violation.                 *)
C25_Witness ==
    /\ db[1].status = "failed"
    /\ Len(violations[1]) = 1
    /\ running
    /\ loaded = {}
    /\ obs = NoObs

(* C26: a daily 80 % warning is sent at most once per challenge and UTC    *)
(* day.  The stored row tells what the last committed tick of the day saw: *)
(* when daily_reset_at is today and the stored daily_pnl put the daily     *)
(* drawdown in [0.8 * limit, limit), that tick sent daily_drawdown_80, and *)
(* a further tick of the challenge on this day does not send it again.     *)
C26_WarningOncePerDay ==
    [][\A c \in CIDs :
         LET ct == ChallengeType[db[c].plan]
             last_dd == IF db[c].daily_pnl < 0 /\ db[c].daily_start_balance > 0
                        THEN Pct(0 - db[c].daily_pnl, db[c].daily_start_balance)
                        ELSE 0
         IN  (/\ TickOf(c)
              /\ db[c] = sess[c]
              /\ db[c].daily_reset_at = day
              /\ "daily_drawdown_80" \in _check_drawdown_warnings(ct, last_dd, 0))
             => "daily_drawdown_80" \notin obs'.notes]_vars

(* ------------- setup_funded_account against the master balance ---------- *)

(* settings.bybit_master_min_balance *)
bybit_master_min_balance == 10000

(* Available USDT on the master account and sizes of the account funded. *)
MasterBalances == {0, 4999, 9999, 10000, 24999, 25000, 60000}

FundedSizes == {5000, 10000, 25000, 50000}

(* check_master_balance: the balance against the configured minimum. *)
check_master_balance(balance) == balance >= bybit_master_min_balance

(* setup_funded_account before its first step. *)
NoProvision == [pc |-> "check", subs |-> 0, transferred |-> 0, keys |-> 0,
                result |-> "none"]

InitProvision ==
    /\ EngineInit
    /\ freeIds = {}
    /\ calcIn \in [balance : MasterBalances, account_size : FundedSizes]
    /\ calcOut = NoProvision

ProvisionUnchanged ==
    UNCHANGED <<db, sess, loaded, todo, running, ticks, role, violations, steps,
                pendingSteps, master, day, todayPnl, tradesToday, cont, obs,
                seen, freeIds, calcIn, tradesYesterday, payouts, req,
                   bot_notifications, handlers, pushed, consumed,
                accounts, trades, today, resp, inflight>>

(* Step 1 of setup_funded_account: ValueError when check_master_balance    *)
(* says no.                                                                *)
provision_check_balance ==
    /\ calcOut.pc = "check"
    /\ calcOut' = IF check_master_balance(calcIn.balance)
                  THEN [calcOut EXCEPT !.pc = "create_sub"]
                  ELSE [calcOut EXCEPT !.pc = "done", !.result = "ValueError"]
    /\ ProvisionUnchanged

(* Step 2: create_sub_account; the exchange answers or the call raises. *)
provision_create_sub(answer) ==
    /\ calcOut.pc = "create_sub"
    /\ calcOut' = IF answer = "ok"
                  THEN [calcOut EXCEPT !.pc = "transfer", !.subs = @ + 1]
                  ELSE [calcOut EXCEPT !.pc = "done", !.result = "BybitAPIError"]
    /\ ProvisionUnchanged

(* Step 3: internal_transfer of account_size from the master account; the  *)
(* exchange moves no more than the master account holds.                   *)
provision_transfer(answer) ==
    /\ calcOut.pc = "transfer"
    /\ answer = "ok" => calcIn.balance >= calcIn.account_size
    /\ calcOut' = IF answer = "ok"
                  THEN [calcOut EXCEPT !.pc = "create_key",
                                       !.transferred = calcIn.account_size]
                  ELSE [calcOut EXCEPT !.pc = "done", !.result = "BybitAPIError"]
    /\ ProvisionUnchanged

(* Step 4: create_sub_api_key. *)
provision_create_key(answer) ==
    /\ calcOut.pc = "create_key"
    /\ calcOut' = IF answer = "ok"
                  THEN [calcOut EXCEPT !.pc = "done", !.keys = 1, !.result = "ok"]
                  ELSE [calcOut EXCEPT !.pc = "done", !.result = "BybitAPIError"]
    /\ ProvisionUnchanged

NextProvision ==
    \/ provision_check_balance
    \/ \E answer \in {"ok", "failed"} : provision_create_sub(answer)
    \/ \E answer \in {"ok", "failed"} : provision_transfer(answer)
    \/ \E answer \in {"ok", "failed"} : provision_create_key(answer)

SpecProvision == InitProvision /\ [][NextProvision]_vars

(* C28: when the master balance is below the size of the account being     *)
(* funded, setup_funded_account creates no sub-account and transfers no    *)
(* funds.                                                                  *)
C28_BalanceCoversSize ==
    calcIn.balance < calcIn.account_size
    => (calcOut.subs = 0 /\ calcOut.transferred = 0)

(* ------------------- the bot_notifications queue (Redis) ---------------- *)

(* What one trading request queues, in its order: close_trade queues one   *)
(* payload after its commit; check_tpsl_all queues trade_closed for a      *)
(* closed trade, then account_failed or phase_changed.                     *)
NotifyPlans ==
    { <<"trade_closed">>, <<"account_failed">>, <<"phase_changed">>,
      <<"trade_closed", "account_failed">>, <<"trade_closed", "phase_changed">> }

(* Faulty variant: the payload is added at the end the worker takes from. *)
lpush_at_tail(list, payload) == Append(list, payload)

(* redis.lpush: the payload becomes the head of the list. *)
lpush(list, payload) == <<payload>> \o list

(* redis.brpop on a list that is not empty: the tail and what is left. *)
brpop(list) ==
    [item |-> list[Len(list)], left |-> SubSeq(list, 1, Len(list) - 1)]

QueueUnchanged ==
    UNCHANGED <<db, sess, loaded, todo, running, ticks, role, violations, steps,
                pendingSteps, master, day, todayPnl, tradesToday, cont, obs,
                seen, freeIds, calcIn, calcOut, tradesYesterday, payouts, req,
                accounts, trades, today, resp, inflight>>

(* close_trade or check_tpsl_all up to its first notification. *)
trading_request(h, plan) ==
    /\ handlers[h].pc = "idle"
    /\ handlers' = [handlers EXCEPT ![h] = [pc |-> "notify", pending |-> plan]]
    /\ UNCHANGED <<bot_notifications, pushed, consumed,
                accounts, trades, today, resp, inflight>>
    /\ QueueUnchanged

(* _notify_trade_closed, _notify_phase_change, _notify_fail: the payload   *)
(* is pushed; an exception of Redis is logged and the payload is dropped.  *)
_notify(h, answer) ==
    /\ handlers[h].pc = "notify"
    /\ LET payload == [handler |-> h, type |-> Head(handlers[h].pending)]
           left == Tail(handlers[h].pending)
       IN  /\ IF answer = "ok"
              THEN /\ bot_notifications' = lpush(bot_notifications, payload)
                   /\ pushed' = Append(pushed, payload)
              ELSE UNCHANGED <<bot_notifications, pushed>>
           /\ handlers' = [handlers EXCEPT ![h] =
                             [pc |-> IF left = <<>> THEN "done" ELSE "notify",
                              pending |-> left]]
    /\ UNCHANGED consumed
    /\ QueueUnchanged

(* One turn of notification_worker's loop with an item: the item is taken  *)
(* and bot.send_message delivers it, or raises and the item is gone.       *)
notification_worker(sent) ==
    /\ bot_notifications # <<>>
    /\ bot_notifications' = brpop(bot_notifications).left
    /\ consumed' = Append(consumed, [item |-> brpop(bot_notifications).item,
                                     sent |-> sent])
    /\ UNCHANGED <<handlers, pushed>>
    /\ QueueUnchanged

InitQueue ==
    /\ EngineInit
    /\ freeIds = {}
    /\ calcIn = NoCalc
    /\ calcOut = NoCalcOut

NextQueue ==
    \/ \E h \in Handlers, plan \in NotifyPlans : trading_request(h, plan)
    \/ \E h \in Handlers, answer \in {"ok", "failed"} : _notify(h, answer)
    \/ \E sent \in BOOLEAN : notification_worker(sent)

SpecQueue == InitQueue /\ [][NextQueue]_vars

DecimalPrec == 28

(* A Decimal is a sequence of digits, most significant first and without   *)
(* leading zeros, and an exponent: the digits read as an integer, times    *)
(* ten to the exponent.                                                    *)
RECURSIVE Digits(_)
Digits(n) == IF n = 0 THEN <<>> ELSE Append(Digits(n \div 10), n % 10)

RECURSIVE DigitsToInt(_)
DigitsToInt(ds) ==
    IF ds = <<>> THEN 0
    ELSE DigitsToInt(SubSeq(ds, 1, Len(ds) - 1)) * 10 + ds[Len(ds)]

RECURSIVE Incr(_)
Incr(ds) ==
    IF ds = <<>> THEN <<1>>
    ELSE IF ds[Len(ds)] < 9 THEN [ds EXCEPT ![Len(ds)] = @ + 1]
    ELSE Append(Incr(SubSeq(ds, 1, Len(ds) - 1)), 0)

(* Faulty variant: the digits after the cut are dropped (ROUND_DOWN). *)
RoundHalfEven_truncating(ds, keep, sticky) ==
    SubSeq(ds, 1, keep)

(* ROUND_HALF_EVEN of the digits ds to their first keep digits; sticky     *)
(* tells that something other than zero follows ds.                        *)
RoundHalfEven(ds, keep, sticky) ==
    IF keep >= Len(ds) THEN ds
    ELSE LET kept == SubSeq(ds, 1, keep)
             next == ds[keep + 1]
             more == sticky \/ \E i \in (keep + 2)..Len(ds) : ds[i] # 0
             odd  == keep > 0 /\ ds[keep] % 2 = 1
         IN  IF next > 5 \/ (next = 5 /\ (more \/ odd)) THEN Incr(kept) ELSE kept

(* A result of an operation, brought to the precision of the context. *)
ToPrec(ds, e, sticky) ==
    IF Len(ds) <= DecimalPrec THEN [d |-> ds, e |-> e]
    ELSE [d |-> RoundHalfEven(ds, DecimalPrec, sticky),
          e |-> e + (Len(ds) - DecimalPrec)]

(* Long division of the digits xs by the integer m: i digits of xs (and of *)
(* the zeros after them) are consumed, r is the remainder, ds the quotient *)
(* so far.  It stops with one digit more than the precision.               *)
RECURSIVE DivLoop(_, _, _, _, _, _)
DivLoop(xs, e, m, i, r, ds) ==
    IF Len(ds) = DecimalPrec + 1 \/ (r = 0 /\ i >= Len(xs))
    THEN ToPrec(ds, e + Len(xs) - i,
                r # 0 \/ \E j \in (i + 1)..Len(xs) : xs[j] # 0)
    ELSE LET cur == r * 10 + (IF i + 1 <= Len(xs) THEN xs[i + 1] ELSE 0)
             dig == cur \div m
         IN  DivLoop(xs, e, m, i + 1, cur % m,
                     IF ds = <<>> /\ dig = 0 THEN ds ELSE Append(ds, dig))

(* Decimal / Decimal where the divisor is the integer m. *)
DecDivInt(x, m) == DivLoop(x.d, x.e, m, 0, 0, <<>>)

(* The digits of xs[1..i] * m + carry, followed by acc. *)
RECURSIVE MulLoop(_, _, _, _, _)
MulLoop(xs, m, i, carry, acc) ==
    IF i = 0 THEN Digits(carry) \o acc
    ELSE LET cur == xs[i] * m + carry
         IN  MulLoop(xs, m, i - 1, cur \div 10, <<cur % 10>> \o acc)

(* Decimal * Decimal where the factor is the integer m. *)
DecMulInt(x, m) == ToPrec(MulLoop(x.d, m, Len(x.d), 0, <<>>), x.e, FALSE)

(* Decimal.quantize to the given number of decimal places, as an integer   *)
(* count of units of that place.                                           *)
quantize(x, places) ==
    LET keep == Len(x.d) + x.e + places
    IN  IF keep >= Len(x.d)
        THEN DigitsToInt(x.d \o [i \in 1..(keep - Len(x.d)) |-> 0])
        ELSE IF keep < 0 THEN 0
        ELSE DigitsToInt(RoundHalfEven(x.d, keep, FALSE))

(* calculate_position_size_from_risk.  balance a Decimal of USDT, risk_pct *)
(* in percent, prices in 0.01 USDT; position_size comes back in units of   *)
(* 0.00000001, notional_value and margin_used in 0.01 USDT.                *)
calculate_position_size_from_risk(balance, risk_pct, entry_price, stop_loss, direction, leverage) ==
    LET stop_distance == IF direction = "LONG" THEN entry_price - stop_loss
                         ELSE stop_loss - entry_price
    IN  IF stop_distance <= 0
        THEN [error |-> "ValueError", position_size |-> NULL,
              notional_value |-> NULL, margin_used |-> NULL]
        ELSE LET position_size ==
                     DecDivInt(DecMulInt(balance, risk_pct), stop_distance)
                 product == DecMulInt(position_size, entry_price)
                 notional_value == [product EXCEPT !.e = @ - 2]
                 margin_used == DecDivInt(notional_value, leverage)
             IN  [error |-> "none",
                  position_size |-> quantize(position_size, 8),
                  notional_value |-> quantize(notional_value, 2),
                  margin_used |-> quantize(margin_used, 2)]

RiskBalances == {100, 500, 1000}
RiskPcts == {1, 2}
RiskEntries == {300, 10000, 1000000}
RiskStopOffsets == {-6000, -2400, -700, -300, -100, 0, 100, 300, 700, 2400, 6000}
RiskLeverages == {1, 3, 10, 50}

RiskInputs ==
    { in \in [balance : RiskBalances, risk_pct : RiskPcts, entry_price : RiskEntries,
              offset : RiskStopOffsets, direction : {"LONG", "SHORT"},
              leverage : RiskLeverages] : in.entry_price + in.offset > 0 }

NoSize == [done |-> FALSE, out |-> NULL]

InitRisk ==
    /\ EngineInit
    /\ freeIds = {}
    /\ calcIn \in RiskInputs
    /\ calcOut = NoSize

(* The function applied to the arguments. *)
PositionSize ==
    /\ ~calcOut.done
    /\ calcOut' = [done |-> TRUE,
                   out |-> calculate_position_size_from_risk(
                              [d |-> Digits(calcIn.balance), e |-> 0],
                              calcIn.risk_pct, calcIn.entry_price,
                              calcIn.entry_price + calcIn.offset,
                              calcIn.direction, calcIn.leverage)]
    /\ UNCHANGED <<db, sess, loaded, todo, running, ticks, role, violations, steps,
                   pendingSteps, master, day, todayPnl, tradesToday, cont, obs,
                   seen, freeIds, calcIn, tradesYesterday, payouts, req,
                   bot_notifications, handlers, pushed, consumed,
                accounts, trades, today, resp, inflight>>

NextRisk == PositionSize

SpecRisk == InitRisk /\ [][NextRisk]_vars

(* v is an integer nearest to n / d. *)
Nearest(v, n, d) ==
    LET q == n \div d
        r == n % d
    IN  (v = q /\ 2 * r <= d) \/ (v = q + 1 /\ 2 * r >= d)

(* v is an integer nearest to n * 10^8 / d, the division done in two       *)
(* halves of four digits.                                                  *)
NearestAt8(v, n, d) ==
    LET q1 == (n * 10000) \div d
        r1 == (n * 10000) % d
        q2 == (r1 * 10000) \div d
        r2 == (r1 * 10000) % d
        q  == q1 * 10000 + q2
    IN  (v = q /\ 2 * r2 <= d) \/ (v = q + 1 /\ 2 * r2 >= d)

(* C30: with stop_distance = entry - stop for LONG and stop - entry for    *)
(* SHORT, a stop_distance <= 0 gives an error and no size; otherwise the   *)
(* returned quantity times stop_distance is balance * risk_pct / 100 up to *)
(* half a unit of the 8th decimal, the notional is quantity * entry and    *)
(* the margin notional / leverage, each up to half a cent.                 *)
C30_PositionSizeFromRisk ==
    calcOut.done =>
        LET stop_loss == calcIn.entry_price + calcIn.offset
            stop_distance == IF calcIn.direction = "LONG"
                             THEN calcIn.entry_price - stop_loss
                             ELSE stop_loss - calcIn.entry_price
            risk == calcIn.balance * calcIn.risk_pct
            out == calcOut.out
        IN  IF stop_distance <= 0
            THEN /\ out.error = "ValueError"
                 /\ out.position_size = NULL
                 /\ out.notional_value = NULL
                 /\ out.margin_used = NULL
            ELSE /\ out.error = "none"
                 /\ NearestAt8(out.position_size, risk, stop_distance)
                 /\ Nearest(out.notional_value, risk * calcIn.entry_price,
                            stop_distance)
                 /\ Nearest(out.margin_used, risk * calcIn.entry_price,
                            stop_distance * calcIn.leverage)
                 /\ 2 * out.margin_used * calcIn.leverage
                      <= 2 * out.notional_value + calcIn.leverage + 1
                 /\ 2 * out.margin_used * calcIn.leverage
                      >= 2 * out.notional_value - calcIn.leverage - 1

(* A short of 1 USDT risk over a stop distance of 60 USDT: the quantity    *)
(* 0.01666... is rounded up at the 8th decimal.                            *)
C30_Witness ==
    /\ calcOut.done
    /\ calcIn.balance = 100 /\ calcIn.risk_pct = 1
    /\ calcIn.entry_price = 300 /\ calcIn.offset = 6000
    /\ calcIn.direction = "SHORT" /\ calcIn.leverage = 10
    /\ calcOut.out.error = "none"
    /\ calcOut.out.position_size = 1666667
    /\ calcOut.out.notional_value = 5

InitLive ==
    /\ \E plan \in {"two_static", "two_trailing"} :
         db = [c \in CIDs |-> IF c = 1 THEN NewChallenge(plan, 0) ELSE AbsentRow]
    /\ sess = db
    /\ loaded = {}
    /\ todo = {}
    /\ running = FALSE
    /\ ticks = 0
    /\ role = "challenger"
    /\ violations = [c \in CIDs |-> <<>>]
    /\ steps = [c \in CIDs |-> 0]
    /\ pendingSteps = [c \in CIDs |-> 0]
    /\ master = [c \in CIDs |-> [subs |-> 0, funding |-> 0, scaling |-> 0]]
    /\ day = 0
    /\ todayPnl = [c \in CIDs |-> 0]
    /\ tradesToday = [c \in CIDs |-> 0]
    /\ cont = NoCont
    /\ obs = NoObs
    /\ seen = [c \in CIDs |-> 0]
    /\ freeIds = {}
    /\ calcIn = NoCalc
    /\ calcOut = NoCalcOut
    /\ tradesYesterday = [c \in CIDs |-> 0]
    /\ payouts = <<>>
    /\ req = [r \in Requests |-> NoReq]
    /\ QueueIdle
    /\ PaperIdle

(* The end of a run as in RunEnd; the job is started again at every        *)
(* interval, so the checks are counted per run here.                       *)
RunEndLive ==
    /\ running /\ todo = {} /\ cont = NoCont
    /\ db' = Commit(sess)
    /\ sess' = db'
    /\ steps' = CommitSteps
    /\ pendingSteps' = NoPending
    /\ running' = FALSE
    /\ loaded' = {}
    /\ obs' = NoObs
    /\ ticks' = 0
    /\ UNCHANGED <<todo, role, violations, master, day,
                   todayPnl, tradesToday, cont, seen, rest>>

(* A check of the challenge in which the exchange answered. *)
TickAnswered(c) == TickViolation(c) \/ TickPromotePhase2(c) \/ TickPlain(c)

(* The runs of the engine over the challenge while it is in phase1 or      *)
(* phase2, trades and days passing in between.                             *)
NextLive ==
    \/ DayAdvance
    \/ \E pnl \in TradePnls : TradeClosed(1, pnl)
    \/ RunStart
    \/ RunEndLive
    \/ \E c \in CIDs : TickFetchFailed(c)
    \/ \E c \in CIDs : TickViolation(c)
    \/ \E c \in CIDs : TickPromotePhase2(c)
    \/ \E c \in CIDs : TickPlain(c)

(* The interval trigger fires again and again, a run comes to its end, the *)
(* days pass, and the exchange answers a check infinitely often.           *)
SpecLive ==
    /\ InitLive
    /\ [][NextLive]_vars
    /\ WF_vars(RunStart)
    /\ WF_vars(RunEndLive)
    /\ WF_vars(DayAdvance)
    /\ SF_vars(TickAnswered(1))

(* A check of challenge 1 saw a violation or a profit below the target. *)
OffTarget ==
    /\ obs.cid = 1
    /\ obs.outcome \in Evaluated
    /\ ~(/\ obs.viol = "none"
         /\ obs.total_pnl * 10000
              >= db[1].initial_balance * ChallengeType[db[1].plan].profit_target_p1)

(* The plan asks for trading days and the trader closed a trade on as many *)
(* finished UTC days.                                                      *)
TradedMinDays ==
    /\ ChallengeType[db[1].plan].min_trading_days >= 1
    /\ tradesYesterday[1] >= ChallengeType[db[1].plan].min_trading_days

(* The engine counted the trading day or promoted the challenge. *)
LeftPhase1 ==
    db[1].status = "phase2" \/ db[1].trading_days_count >= 1

(* C36: a phase1 challenge on a plan with min_trading_days >= 1 whose      *)
(* trader closed a trade on a finished UTC day, and whose checks all see   *)
(* the profit at or above the target and no violation, is eventually       *)
(* promoted: its trading_days_count reaches min_trading_days.              *)
C36_EventuallyPromoted ==
    (<>OffTarget) \/ ([]~TradedMinDays) \/ (<>LeftPhase1)

(* ---------------------- paper mode: check_drawdown_rules ---------------- *)

(* (num / den * 100).quantize(0.01) in hundredths of a percent, num and    *)
(* den in cents, den > 0.                                                  *)
PctQuantized(num, den) ==
    LET mag == IF num < 0 THEN 0 - num ELSE num
        quotient == DecDivInt([d |-> Digits(mag), e |-> 0], den)
        pct == quantize([quotient EXCEPT !.e = @ + 2], 2)
    IN  IF num < 0 THEN 0 - pct ELSE pct

(* calculate_daily_drawdown_pct: negative when equity is below the day's   *)
(* start.                                                                  *)
calculate_daily_drawdown_pct(equity, day_start_balance) ==
    IF day_start_balance = 0 THEN 0
    ELSE PctQuantized(equity - day_start_balance, day_start_balance)

(* calculate_trailing_drawdown_pct: positive when equity is below the peak. *)
calculate_trailing_drawdown_pct(equity, peak_equity) ==
    IF peak_equity = 0 THEN 0
    ELSE PctQuantized(peak_equity - equity, peak_equity)

(* check_drawdown_rules: (violated, fail_reason); the limits in hundredths *)
(* of a percent.                                                           *)
check_drawdown_rules(account, equity) ==
    LET daily_dd == calculate_daily_drawdown_pct(equity, account.day_start_balance)
        trailing_dd == calculate_trailing_drawdown_pct(equity, account.peak_equity)
    IN  IF daily_dd <= 0 - account.max_daily_drawdown_pct
        THEN [violated |-> TRUE, fail_reason |-> "DAILY_DRAWDOWN_EXCEEDED"]
        ELSE IF trailing_dd >= account.max_trailing_drawdown_pct
        THEN [violated |-> TRUE, fail_reason |-> "TRAILING_DRAWDOWN_EXCEEDED"]
        ELSE [violated |-> FALSE, fail_reason |-> "None"]

(* Equities, day-start balances and peaks in cents around the limits of    *)
(* 5 % and 10 %.                                                           *)
RuleEquities ==
    {1100000, 1000000, 960000, 950051, 950050, 950040, 950000, 940000,
     900051, 900040, 900000, 890000}

RuleDayStarts == {1000000, 950000, 1050000}

RulePeaks == {1000000, 1050000, 1100000}

RuleInputs ==
    { in \in [equity : RuleEquities, day_start_balance : RuleDayStarts,
              peak_equity : RulePeaks, max_daily_drawdown_pct : {500},
              max_trailing_drawdown_pct : {1000}] :
        in.peak_equity >= in.day_start_balance }

InitRules ==
    /\ EngineInit
    /\ freeIds = {}
    /\ calcIn \in RuleInputs
    /\ calcOut = [done |-> FALSE, out |-> [violated |-> FALSE, fail_reason |-> "None"]]

(* The function applied to the account and the equity. *)
CheckRules ==
    /\ ~calcOut.done
    /\ calcOut' = [done |-> TRUE, out |-> check_drawdown_rules(calcIn, calcIn.equity)]
    /\ UNCHANGED <<db, sess, loaded, todo, running, ticks, role, violations, steps,
                   pendingSteps, master, day, todayPnl, tradesToday, cont, obs,
                   seen, freeIds, calcIn, tradesYesterday, payouts, req,
                   bot_notifications, handlers, pushed, consumed,
                accounts, trades, today, resp, inflight>>

NextRules == CheckRules

SpecRules == InitRules /\ [][NextRules]_vars

(* C37: a violation is reported exactly when equity has fallen from        *)
(* day_start_balance by at least max_daily_drawdown_pct (reason            *)
(* DAILY_DRAWDOWN_EXCEEDED, also when both hold) or from peak_equity by at *)
(* least max_trailing_drawdown_pct (TRAILING_DRAWDOWN_EXCEEDED).           *)
C37_DrawdownRules ==
    calcOut.done =>
        LET daily == (calcIn.day_start_balance - calcIn.equity) * 100
                       >= (calcIn.max_daily_drawdown_pct \div 100)
                            * calcIn.day_start_balance
            trailing == (calcIn.peak_equity - calcIn.equity) * 100
                          >= (calcIn.max_trailing_drawdown_pct \div 100)
                               * calcIn.peak_equity
        IN  calcOut.out =
              IF daily
              THEN [violated |-> TRUE, fail_reason |-> "DAILY_DRAWDOWN_EXCEEDED"]
              ELSE IF trailing
              THEN [violated |-> TRUE, fail_reason |-> "TRAILING_DRAWDOWN_EXCEEDED"]
              ELSE [violated |-> FALSE, fail_reason |-> "None"]

(* --------------------- paper mode: check_phase_completion --------------- *)

(* Faulty variant: the minimum of trading days is not looked at. *)
check_phase_completion_no_days(account, now) ==
    LET target == account.initial_balance * account.profit_target_pct
        profit_ok == account.current_balance - account.initial_balance
                       >= target \div 10000 + (IF target % 10000 = 0 THEN 0 ELSE 1)
    IN  IF ~profit_ok \/ account.phase = "FUNDED"
        THEN [account |-> account, passed |-> FALSE]
        ELSE [account |-> [account EXCEPT !.phase = "FUNDED", !.status = "ACTIVE"],
              passed |-> TRUE]

(* check_phase_completion: the account as it is left and the value         *)
(* returned.  Amounts are in cents, percentages in hundredths of a         *)
(* percent; current >= initial * (1 + target / 100) is written as the gain *)
(* in cents against the target in cents, rounded up.                       *)
check_phase_completion(account, now) ==
    LET days_ok == account.trading_days_count >= account.min_trading_days
        target == account.initial_balance * account.profit_target_pct
        profit_ok == account.current_balance - account.initial_balance
                       >= target \div 10000 + (IF target % 10000 = 0 THEN 0 ELSE 1)
    IN  IF ~(days_ok /\ profit_ok)
        THEN [account |-> account, passed |-> FALSE]
        ELSE IF account.phase = "EVALUATION"
        THEN [account |-> [account EXCEPT
                             !.phase = "VERIFICATION",
                             !.status = "ACTIVE",
                             !.initial_balance = 1000000,
                             !.current_balance = 1000000,
                             !.peak_equity = 1000000,
                             !.day_start_balance = 1000000,
                             !.day_start_date = now,
                             !.profit_target_pct = 500,
                             !.trading_days_count = 0,
                             !.total_trades = 0,
                             !.winning_trades = 0],
              passed |-> TRUE]
        ELSE IF account.phase = "VERIFICATION"
        THEN [account |-> [account EXCEPT !.phase = "FUNDED", !.status = "ACTIVE"],
              passed |-> TRUE]
        ELSE [account |-> account, passed |-> FALSE]

(* Accounts as check_phase_completion may find them: balances around the   *)
(* targets of 8 % and 5 %, trading days around the minimum of 5.           *)
PhaseInputs ==
    [phase : {"EVALUATION", "VERIFICATION", "FUNDED"},
     status : {"ACTIVE"},
     initial_balance : {1000000},
     current_balance : {950000, 1049999, 1050000, 1079999, 1080000, 1200000},
     peak_equity : {1200000},
     day_start_balance : {1000000, 1080000},
     day_start_date : {0},
     max_daily_drawdown_pct : {500},
     max_trailing_drawdown_pct : {1000},
     profit_target_pct : {500, 800},
     min_trading_days : {5},
     trading_days_count : {0, 4, 5, 6},
     total_trades : {7},
     winning_trades : {3},
     fail_reason : {"None"}]

InitPhase ==
    /\ EngineInit
    /\ freeIds = {}
    /\ calcIn \in {a \in PhaseInputs :
                     a.profit_target_pct = IF a.phase = "EVALUATION" THEN 800 ELSE 500}
    /\ calcOut = [done |-> FALSE, out |-> [account |-> calcIn, passed |-> FALSE]]

(* The function applied to the account on the day after it was last reset. *)
CheckPhase ==
    /\ ~calcOut.done
    /\ calcOut' = [done |-> TRUE, out |-> check_phase_completion(calcIn, 1)]
    /\ UNCHANGED <<db, sess, loaded, todo, running, ticks, role, violations, steps,
                   pendingSteps, master, day, todayPnl, tradesToday, cont, obs,
                   seen, freeIds, calcIn, tradesYesterday, payouts, req,
                   bot_notifications, handlers, pushed, consumed,
                accounts, trades, today, resp, inflight>>

NextPhase == CheckPhase

SpecPhase == InitPhase /\ [][NextPhase]_vars

(* C38: the phase moves only EVALUATION -> VERIFICATION -> FUNDED, and     *)
(* only with trading_days_count >= min_trading_days and current_balance >= *)
(* initial_balance * (1 + profit_target_pct / 100); the step to            *)
(* VERIFICATION resets the balances to 10000 and trading_days_count to 0;  *)
(* a FUNDED account and an account that does not meet the conditions are   *)
(* left as they are.                                                       *)
C38_PhaseCompletion ==
    calcOut.done =>
        LET before == calcIn
            after == calcOut.out.account
            met == /\ before.trading_days_count >= before.min_trading_days
                   /\ before.current_balance * 100
                        >= before.initial_balance
                             * (100 + before.profit_target_pct \div 100)
        IN  /\ (~met \/ before.phase = "FUNDED")
                 => (after = before /\ ~calcOut.out.passed)
            /\ (met /\ before.phase = "EVALUATION")
                 => /\ calcOut.out.passed
                    /\ after.phase = "VERIFICATION"
                    /\ after.initial_balance = 1000000
                    /\ after.current_balance = 1000000
                    /\ after.peak_equity = 1000000
                    /\ after.day_start_balance = 1000000
                    /\ after.trading_days_count = 0
            /\ (met /\ before.phase = "VERIFICATION")
                 => /\ calcOut.out.passed
                    /\ after.phase = "FUNDED"
                    /\ after.initial_balance = before.initial_balance
                    /\ after.current_balance = before.current_balance
                    /\ after.peak_equity = before.peak_equity
                    /\ after.day_start_balance = before.day_start_balance
                    /\ after.trading_days_count = before.trading_days_count

(* An EVALUATION account at exactly 8 % and 5 trading days has moved to    *)
(* VERIFICATION with its balance reset.                                    *)
C38_Witness ==
    /\ calcOut.done
    /\ calcIn.phase = "EVALUATION"
    /\ calcIn.current_balance = 1080000
    /\ calcIn.trading_days_count = 5
    /\ calcOut.out.passed
    /\ calcOut.out.account.phase = "VERIFICATION"
    /\ calcOut.out.account.current_balance = 1000000

(* ------------------- paper mode: accounts, trades, requests ------------- *)
(* Amounts in cents, prices in cents, position_size in units of            *)
(* 0.00000001, percentages in hundredths of a percent, times in UTC days.  *)

MaxPaperTrades == 2
MaxPaperDay == 1
MaxAttempts == 2

(* prices.get(symbol) is None. *)
NoPrice == NULL

(* Prices the feed reports for the one symbol traded. *)
PaperPrices == {85000, 90000, 100000, 110000}

(* The Account a login or a restart inserts: the column defaults.          *)
NewAccount(now, attempt) ==
    [phase |-> "EVALUATION", status |-> "ACTIVE",
     initial_balance |-> 1000000, current_balance |-> 1000000,
     peak_equity |-> 1000000, day_start_balance |-> 1000000,
     day_start_date |-> now,
     max_daily_drawdown_pct |-> 500, max_trailing_drawdown_pct |-> 1000,
     profit_target_pct |-> 800, min_trading_days |-> 5,
     trading_days_count |-> 0, total_trades |-> 0, winning_trades |-> 0,
     fail_reason |-> "None", attempt_number |-> attempt]

(* get_current_user: the user's account created last. *)
get_current_user == Len(accounts)

(* select(Trade) of an account by status, as the database holds the rows. *)
TradesOf(account_id, status) ==
    {i \in 1..Len(trades) :
        trades[i].account_id = account_id /\ trades[i].status = status}

RECURSIVE SumOver(_, _)
SumOver(S, f) ==
    IF S = {} THEN 0
    ELSE LET i == CHOOSE x \in S : TRUE
         IN  f[i] + SumOver(S \ {i}, f)

(* calculate_trade_pnl: (close - entry) * multiplier * position_size,      *)
(* quantized to cents; the leverage takes no part.                         *)
calculate_trade_pnl(direction, entry_price, close_price, position_size, leverage) ==
    LET diff == IF direction = "LONG" THEN close_price - entry_price
                ELSE entry_price - close_price
        mag == IF diff < 0 THEN 0 - diff ELSE diff
        product == DecMulInt([d |-> Digits(position_size), e |-> -10], mag)
        pnl == quantize(product, 2)
    IN  IF diff < 0 THEN 0 - pnl ELSE pnl

calculate_unrealized_pnl(trade, current_price) ==
    calculate_trade_pnl(trade.direction, trade.entry_price, current_price,
                        trade.position_size, trade.leverage)

(* calculate_equity over the Trade objects handed in: the balance plus the *)
(* P&L at the current price of each of them that has a price.              *)
calculate_equity(account, objects, open_trades, price) ==
    account.current_balance
      + (IF price = NoPrice THEN 0
         ELSE SumOver(open_trades,
                      [i \in open_trades |-> calculate_unrealized_pnl(objects[i], price)]))

check_and_update_day_start(account) ==
    IF account.day_start_date = NULL \/ account.day_start_date < today
    THEN [account EXCEPT !.day_start_balance = account.current_balance,
                         !.day_start_date = today]
    ELSE account

update_peak_equity(account, equity) ==
    IF equity > account.peak_equity
    THEN [account EXCEPT !.peak_equity = equity]
    ELSE account

(* update_trading_days.  The session does not flush before a query         *)
(* (autoflush=False), so the select sees the committed rows: the trade     *)
(* being closed is still OPEN there.                                       *)
update_trading_days(account, account_id) ==
    LET closed_today == {i \in TradesOf(account_id, "CLOSED") :
                            trades[i].closed_at # NULL /\ trades[i].closed_at >= today}
    IN  IF Cardinality(closed_today) = 1
        THEN [account EXCEPT !.trading_days_count = @ + 1]
        ELSE account

(* One pass of fail_account's loop over a trade with a price. *)
ForceClosed(trade, price, close_reason) ==
    [trade EXCEPT !.close_price = price,
                  !.realized_pnl = calculate_unrealized_pnl(trade, price),
                  !.close_reason = close_reason,
                  !.status = "CLOSED",
                  !.closed_at = today]

(* fail_account: the account and the Trade objects as it leaves them.  A   *)
(* trade without a price is skipped; for the others the P&L is added to    *)
(* the balance.                                                            *)
fail_account(account, fail_reason, objects, open_trades, price) ==
    LET close_reason == IF fail_reason = "DAILY_DRAWDOWN_EXCEEDED"
                        THEN "DAILY_DRAWDOWN" ELSE "TRAILING_DRAWDOWN"
        priced == IF price = NoPrice THEN {} ELSE open_trades
        pnl == [i \in priced |-> calculate_unrealized_pnl(objects[i], price)]
    IN  [account |-> [account EXCEPT
                        !.status = "FAILED",
                        !.fail_reason = fail_reason,
                        !.current_balance = @ + SumOver(priced, pnl),
                        !.winning_trades = @ + Cardinality({i \in priced : pnl[i] > 0}),
                        !.total_trades = @ + Cardinality(priced)],
         objects |-> [i \in DOMAIN objects |->
                        IF i \in priced THEN ForceClosed(objects[i], price, close_reason)
                        ELSE objects[i]]]

PaperUnchanged ==
    UNCHANGED <<db, sess, loaded, todo, running, ticks, role, violations, steps,
                pendingSteps, master, day, todayPnl, tradesToday, cont, obs,
                seen, freeIds, calcIn, calcOut, tradesYesterday, payouts, req,
                bot_notifications, handlers, pushed, consumed>>

Response(op, code, notify) == [op |-> op, code |-> code, notify |-> notify]

(* What an account of the user is after its first days: nothing traded, or *)
(* five trading days whose ten trades were closed at their entry price.    *)
(* The rows of those trades, closed on earlier days with a P&L of 0, are   *)
(* left out.                                                               *)
PriorTradingDays == {0, 5}

InitPaper ==
    /\ EngineIdle
    /\ freeIds = {}
    /\ calcIn = NULL
    /\ calcOut = NULL
    /\ \E days \in PriorTradingDays :
         accounts = <<[NewAccount(0, 1) EXCEPT !.trading_days_count = days,
                                                !.total_trades = 2 * days]>>
    /\ trades = <<>>
    /\ today = 0
    /\ resp = Response("none", 0, "none")
    /\ inflight = <<>>

(* POST /trading/open.  A request refused with 400 is rolled back, the     *)
(* day-start update with it.                                               *)
open_trade(direction, risk_pct, leverage, take_profit, stop_loss, entry_price) ==
    LET id == get_current_user
        account == check_and_update_day_start(accounts[id])
        valid == IF direction = "LONG"
                 THEN take_profit > entry_price /\ stop_loss < entry_price
                 ELSE take_profit < entry_price /\ stop_loss > entry_price
        balance == account.current_balance
        size_data == calculate_position_size_from_risk(
                        [d |-> Digits(balance), e |-> -2], risk_pct, entry_price,
                        stop_loss, direction, leverage)
        trade == [account_id |-> id, direction |-> direction, status |-> "OPEN",
                  leverage |-> leverage,
                  position_size |-> size_data.position_size,
                  notional_value |-> size_data.notional_value,
                  margin_used |-> size_data.margin_used,
                  entry_price |-> entry_price, take_profit |-> take_profit,
                  stop_loss |-> stop_loss, close_price |-> NULL,
                  realized_pnl |-> NULL, close_reason |-> "None",
                  closed_at |-> NULL]
    IN  /\ inflight = <<>>
        /\ Len(trades) < MaxPaperTrades
        /\ IF \/ accounts[id].status # "ACTIVE"
              \/ ~valid
              \/ size_data.error # "none"
              \/ size_data.margin_used > balance
           THEN /\ resp' = Response("open", 400, "none")
                /\ UNCHANGED <<accounts, trades>>
           ELSE /\ trades' = Append(trades, trade)
                /\ accounts' = [accounts EXCEPT ![id] =
                                  [account EXCEPT !.current_balance =
                                                     balance - size_data.margin_used]]
                /\ resp' = Response("open", 200, "none")
        /\ UNCHANGED <<today, inflight>>
        /\ PaperUnchanged

(* The Trade object of a manual close. *)
ManualClosed(trade, close_price) ==
    [trade EXCEPT !.close_price = close_price,
                  !.realized_pnl = calculate_unrealized_pnl(trade, close_price),
                  !.close_reason = "MANUAL",
                  !.status = "CLOSED",
                  !.closed_at = today]

(* The tail shared by close_trade and check_tpsl_all: the open trades are  *)
(* selected again (the rows closed in this session are still OPEN in the   *)
(* database, and come back as the session's objects), equity, peak, the    *)
(* drawdown rules, then fail_account or check_phase_completion.            *)
AfterCloseOn(account, objects, open_trades, price) ==
    LET equity == calculate_equity(account, objects, open_trades, price)
        peaked == update_peak_equity(account, equity)
        rules == check_drawdown_rules(peaked, equity)
        failed == fail_account(peaked, rules.fail_reason, objects, open_trades, price)
        phase == check_phase_completion(peaked, today)
    IN  IF rules.violated
        THEN [account |-> failed.account, objects |-> failed.objects,
              notify |-> "account_failed"]
        ELSE [account |-> phase.account, objects |-> objects,
              notify |-> IF phase.passed THEN "phase_changed" ELSE "trade_closed"]

AfterClose(account, objects, account_id, price) ==
    AfterCloseOn(account, objects, TradesOf(account_id, "OPEN"), price)

(* POST /trading/close of trade t: close_price is what fetch_price_rest    *)
(* answers, price what fetch_all_prices answers for the symbol afterwards: *)
(* the requests below get the same price again, or none.                   *)
close_trade(t, close_price, price) ==
    LET id == get_current_user
        account == accounts[id]
        trade == ManualClosed(trades[t], close_price)
        pnl == trade.realized_pnl
        credited == [account EXCEPT
                       !.current_balance = @ + trade.margin_used + pnl,
                       !.total_trades = @ + 1,
                       !.winning_trades = IF pnl > 0 THEN @ + 1 ELSE @]
        counted == update_trading_days(credited, id)
        done == AfterClose(counted, [trades EXCEPT ![t] = trade], id, price)
    IN  /\ inflight = <<>>
        /\ t \in TradesOf(id, "OPEN")
        /\ accounts' = [accounts EXCEPT ![id] = done.account]
        /\ trades' = done.objects
        /\ resp' = Response("close", 200, done.notify)
        /\ UNCHANGED <<today, inflight>>
        /\ PaperUnchanged

(* POST /trading/close of a trade that is not an open trade of the         *)
(* account: 404.                                                           *)
close_trade_not_found(t) ==
    /\ inflight = <<>>
    /\ t \notin TradesOf(get_current_user, "OPEN")
    /\ resp' = Response("close", 404, "none")
    /\ UNCHANGED <<accounts, trades, today, inflight>>
    /\ PaperUnchanged

hit_tp(trade, price) ==
    \/ trade.direction = "LONG" /\ price >= trade.take_profit
    \/ trade.direction = "SHORT" /\ price <= trade.take_profit

hit_sl(trade, price) ==
    \/ trade.direction = "LONG" /\ price <= trade.stop_loss
    \/ trade.direction = "SHORT" /\ price >= trade.stop_loss

(* The Trade object check_tpsl_all closes at its level. *)
LevelClosed(trade, price) ==
    LET close_price == IF hit_tp(trade, price) THEN trade.take_profit
                       ELSE trade.stop_loss
    IN  [trade EXCEPT !.close_price = close_price,
                      !.realized_pnl = calculate_unrealized_pnl(trade, close_price),
                      !.close_reason = IF hit_tp(trade, price) THEN "TAKE_PROFIT"
                                       ELSE "STOP_LOSS",
                      !.status = "CLOSED",
                      !.closed_at = today]

(* POST /trading/check-tpsl with the price fetch_all_prices answers.  The  *)
(* returns before the loop leave the day-start update to the commit of     *)
(* get_db.  update_trading_days runs once for every trade closed, each     *)
(* time over the committed rows.                                           *)
check_tpsl_all(price) ==
    LET id == get_current_user
        account == check_and_update_day_start(accounts[id])
        open_trades == TradesOf(id, "OPEN")
        hit == IF price = NoPrice THEN {}
               ELSE {i \in open_trades :
                       hit_tp(trades[i], price) \/ hit_sl(trades[i], price)}
        objects == [i \in 1..Len(trades) |->
                      IF i \in hit THEN LevelClosed(trades[i], price) ELSE trades[i]]
        pnl == [i \in hit |-> objects[i].realized_pnl]
        margin == [i \in hit |-> objects[i].margin_used]
        days == IF update_trading_days(account, id) = account THEN 0
                ELSE Cardinality(hit)
        credited == [account EXCEPT
                       !.current_balance = @ + SumOver(hit, margin) + SumOver(hit, pnl),
                       !.total_trades = @ + Cardinality(hit),
                       !.winning_trades = @ + Cardinality({i \in hit : pnl[i] > 0}),
                       !.trading_days_count = @ + days]
        done == AfterClose(credited, objects, id, price)
    IN  /\ inflight = <<>>
        /\ IF accounts[id].status # "ACTIVE"
           THEN /\ resp' = Response("check-tpsl", 200, "none")
                /\ UNCHANGED <<accounts, trades>>
           ELSE IF open_trades = {}
           THEN /\ accounts' = [accounts EXCEPT ![id] = account]
                /\ resp' = Response("check-tpsl", 200, "none")
                /\ UNCHANGED trades
           ELSE /\ accounts' = [accounts EXCEPT ![id] = done.account]
                /\ trades' = done.objects
                /\ resp' = Response("check-tpsl", 200,
                                    IF done.notify = "trade_closed" /\ hit = {}
                                    THEN "none" ELSE done.notify)
        /\ UNCHANGED <<today, inflight>>
        /\ PaperUnchanged

(* GET /account/overview: the day-start update, committed. *)
get_account_overview ==
    /\ inflight = <<>>
    /\ accounts' = [accounts EXCEPT ![get_current_user] =
                      check_and_update_day_start(accounts[get_current_user])]
    /\ resp' = Response("overview", 200, "none")
    /\ UNCHANGED <<trades, today, inflight>>
    /\ PaperUnchanged

(* POST /account/restart: 400 unless the account is FAILED; its open       *)
(* trades are marked CLOSED and a new account is inserted.                 *)
restart_account ==
    LET id == get_current_user
        account == accounts[id]
        open_trades == TradesOf(id, "OPEN")
    IN  /\ inflight = <<>>
        /\ account.attempt_number < MaxAttempts
        /\ IF account.status # "FAILED"
           THEN /\ resp' = Response("restart", 400, "none")
                /\ UNCHANGED <<accounts, trades>>
           ELSE /\ trades' = [i \in 1..Len(trades) |->
                                IF i \in open_trades
                                THEN [trades[i] EXCEPT !.status = "CLOSED",
                                                       !.closed_at = today]
                                ELSE trades[i]]
                /\ accounts' = Append(accounts,
                                      NewAccount(today, account.attempt_number + 1))
                /\ resp' = Response("restart", 200, "none")
        /\ UNCHANGED <<today, inflight>>
        /\ PaperUnchanged

(* Midnight UTC. *)
NewDay ==
    /\ inflight = <<>>
    /\ today < MaxPaperDay
    /\ today' = today + 1
    /\ UNCHANGED <<accounts, trades, resp, inflight>>
    /\ PaperUnchanged

(* Take-profit and stop-loss levels the user asks for. *)
PaperLevels == {90000, 110000}

PaperRiskPcts == {10}
PaperLeverages == {10}

NextPaper ==
    \/ \E direction \in {"LONG", "SHORT"}, risk_pct \in PaperRiskPcts,
          leverage \in PaperLeverages, take_profit, stop_loss \in PaperLevels,
          entry_price \in PaperPrices :
         open_trade(direction, risk_pct, leverage, take_profit, stop_loss, entry_price)
    \/ \E t \in 1..MaxPaperTrades, close_price \in PaperPrices,
          available \in BOOLEAN :
         close_trade(t, close_price, IF available THEN close_price ELSE NoPrice)
    \/ \E t \in 1..MaxPaperTrades : close_trade_not_found(t)
    \/ \E price \in PaperPrices \cup {NoPrice} : check_tpsl_all(price)
    \/ get_account_overview
    \/ restart_account
    \/ NewDay

SpecPaper == InitPaper /\ [][NextPaper]_vars

(* The two sides of the balance equation of an account: what it holds plus *)
(* the margin of its open trades, and what the phase began with plus the   *)
(* P&L realized by its closed trades.                                      *)
HeldAndReserved(a) ==
    accounts[a].current_balance
      + SumOver(TradesOf(a, "OPEN"),
                [i \in TradesOf(a, "OPEN") |-> trades[i].margin_used])

StartAndRealized(a) ==
    accounts[a].initial_balance
      + SumOver(TradesOf(a, "CLOSED"),
                [i \in TradesOf(a, "CLOSED") |->
                   IF trades[i].realized_pnl = NULL THEN 0
                   ELSE trades[i].realized_pnl])

(* C33: in the first phase of an account, after any sequence of opens and  *)
(* closes (manual, TP/SL or forced by a failure), current_balance plus the *)
(* margin_used of the open trades equals the balance the phase began with  *)
(* plus the realized_pnl of the closed trades.                             *)
C33_MarginConservation ==
    \A a \in 1..Len(accounts) :
        accounts[a].phase = "EVALUATION" => HeldAndReserved(a) = StartAndRealized(a)

(* C31: a FAILED account stays FAILED and keeps its phase, and the reset  *)
(* of a new phase (peak_equity and trading_days_count set back) is not     *)
(* applied to it, whatever request is served; a new account is inserted    *)
(* only when the latest one is FAILED.                                     *)
C31_FailedIsTerminal ==
    [][/\ \A a \in 1..Len(accounts) :
            accounts[a].status = "FAILED"
              => /\ accounts'[a].status = "FAILED"
                 /\ accounts'[a].phase = accounts[a].phase
                 /\ accounts'[a].peak_equity >= accounts[a].peak_equity
                 /\ accounts'[a].trading_days_count >= accounts[a].trading_days_count
       /\ Len(accounts') > Len(accounts)
            => accounts[Len(accounts)].status = "FAILED"]_vars

(* The open trades of the current account whose level the price reached. *)
HitBy(price) ==
    IF price = NoPrice \/ accounts[get_current_user].status # "ACTIVE" THEN {}
    ELSE {i \in TradesOf(get_current_user, "OPEN") :
            \/ trades[i].direction = "LONG" /\ price >= trades[i].take_profit
            \/ trades[i].direction = "SHORT" /\ price <= trades[i].take_profit
            \/ trades[i].direction = "LONG" /\ price <= trades[i].stop_loss
            \/ trades[i].direction = "SHORT" /\ price >= trades[i].stop_loss}

ReachedTP(trade, price) ==
    IF trade.direction = "LONG" THEN price >= trade.take_profit
    ELSE price <= trade.take_profit

(* C39: a check-tpsl request closes exactly the open trades whose TP or SL *)
(* the price reached (LONG: price >= TP or price <= SL; SHORT: price <= TP *)
(* or price >= SL), at the level itself (the TP when both are reached) and *)
(* once (total_trades grows by one for each); every other trade, all of    *)
(* them when there is no price or the account is not ACTIVE, is left as it *)
(* is.                                                                     *)
C39_CheckTpsl ==
    [][\A price \in PaperPrices \cup {NoPrice} :
         check_tpsl_all(price)
           => /\ \A i \in 1..Len(trades) :
                   IF i \in HitBy(price)
                   THEN /\ trades'[i].status = "CLOSED"
                        /\ trades'[i].close_price =
                             IF ReachedTP(trades[i], price)
                             THEN trades[i].take_profit
                             ELSE trades[i].stop_loss
                   ELSE trades'[i] = trades[i]
              /\ accounts'[get_current_user].phase = accounts[get_current_user].phase
                   => accounts'[get_current_user].total_trades
                        = accounts[get_current_user].total_trades
                            + Cardinality(HitBy(price))]_vars

(* ---------------- paper mode: concurrent close requests ----------------- *)
(* Each request has its own session: the Account and Trade objects it      *)
(* loaded stay as loaded (and as the request changed them) whatever other  *)
(* requests commit; every select reads the rows committed at that moment.  *)

RaceHandlers == {1, 2}

(* The trade both requests are about. *)
RaceTrade == 1

NoSession ==
    [op |-> "none", pc |-> "idle", account |-> NULL, loaded_account |-> NULL,
     objects |-> <<>>, loaded_objects |-> <<>>, open_trades |-> {},
     price |-> NoPrice, hit |-> {}, code |-> 0]

(* The account after one open_trade of a LONG at 1000.00 with the          *)
(* stop-loss at 900.00, on a fresh account or after five flat days.        *)
InitRace ==
    /\ EngineIdle
    /\ freeIds = {}
    /\ calcIn = NULL
    /\ calcOut = NULL
    /\ \E days \in PriorTradingDays :
         accounts = <<[NewAccount(0, 1) EXCEPT !.trading_days_count = days,
                                                !.total_trades = 2 * days,
                                                !.current_balance = 900000]>>
    /\ trades = <<[account_id |-> 1, direction |-> "LONG", status |-> "OPEN",
                   leverage |-> 10, position_size |-> 1000000000,
                   notional_value |-> 1000000, margin_used |-> 100000,
                   entry_price |-> 100000, take_profit |-> 110000,
                   stop_loss |-> 90000, close_price |-> NULL,
                   realized_pnl |-> NULL, close_reason |-> "None",
                   closed_at |-> NULL]>>
    /\ today = 0
    /\ resp = Response("none", 0, "none")
    /\ inflight = [h \in RaceHandlers |-> NoSession]

(* The UPDATE a flush emits for an object: the columns whose value differs *)
(* from the one loaded.                                                    *)
Flush(row, before, object) ==
    [f \in DOMAIN row |-> IF object[f] # before[f] THEN object[f] ELSE row[f]]

RaceUnchanged ==
    /\ UNCHANGED today
    /\ PaperUnchanged

(* get_current_user of a request: the Account is loaded.  check-tpsl       *)
(* returns at once for an account that is not ACTIVE.                      *)
race_begin(h, op) ==
    LET account == accounts[get_current_user]
        refused == op = "check-tpsl" /\ account.status # "ACTIVE"
    IN  /\ inflight[h].pc = "idle"
        /\ inflight' = [inflight EXCEPT ![h] =
             [@ EXCEPT !.op = op,
                       !.pc = IF refused THEN "done" ELSE "account",
                       !.code = IF refused THEN 200 ELSE 0,
                       !.loaded_account = account,
                       !.account = IF op = "check-tpsl" /\ ~refused
                                   THEN check_and_update_day_start(account)
                                   ELSE account]]
        /\ resp' = IF refused THEN Response(op, 200, "none") ELSE resp
        /\ UNCHANGED <<accounts, trades>>
        /\ RaceUnchanged

(* close_trade: the select of the trade among the OPEN rows; 404 and       *)
(* rollback when it is not there.                                          *)
race_select_trade(h) ==
    LET found == RaceTrade \in TradesOf(get_current_user, "OPEN")
    IN  /\ inflight[h].pc = "account"
        /\ inflight[h].op = "close"
        /\ inflight' = [inflight EXCEPT ![h] =
             IF found
             THEN [@ EXCEPT !.pc = "trade", !.objects = trades,
                            !.loaded_objects = trades]
             ELSE [@ EXCEPT !.pc = "done", !.code = 404]]
        /\ resp' = IF found THEN resp ELSE Response("close", 404, "none")
        /\ UNCHANGED <<accounts, trades>>
        /\ RaceUnchanged

(* close_trade: fetch_price_rest answers, the Trade and the Account are    *)
(* changed in the session.                                                 *)
race_fetch_price(h, close_price) ==
    LET s == inflight[h]
        trade == ManualClosed(s.objects[RaceTrade], close_price)
        pnl == trade.realized_pnl
    IN  /\ s.pc = "trade"
        /\ inflight' = [inflight EXCEPT ![h] =
             [@ EXCEPT !.pc = "days",
                       !.hit = {RaceTrade},
                       !.objects = [s.objects EXCEPT ![RaceTrade] = trade],
                       !.account = [s.account EXCEPT
                          !.current_balance = @ + trade.margin_used + pnl,
                          !.total_trades = @ + 1,
                          !.winning_trades = IF pnl > 0 THEN @ + 1 ELSE @]]]
        /\ UNCHANGED <<accounts, trades, resp>>
        /\ RaceUnchanged

(* check_tpsl_all: the select of the OPEN trades; with none the request    *)
(* returns and get_db commits the day-start update.                        *)
race_select_open(h) ==
    LET s == inflight[h]
        open_trades == TradesOf(get_current_user, "OPEN")
    IN  /\ s.pc = "account"
        /\ s.op = "check-tpsl"
        /\ IF open_trades = {}
           THEN /\ inflight' = [inflight EXCEPT ![h] = [@ EXCEPT !.pc = "done",
                                                                 !.code = 200]]
                /\ accounts' = [accounts EXCEPT ![get_current_user] =
                                  Flush(@, s.loaded_account, s.account)]
                /\ resp' = Response("check-tpsl", 200, "none")
           ELSE /\ inflight' = [inflight EXCEPT ![h] =
                     [@ EXCEPT !.pc = "loop", !.objects = trades,
                               !.loaded_objects = trades,
                               !.open_trades = open_trades]]
                /\ UNCHANGED <<accounts, resp>>
        /\ UNCHANGED trades
        /\ RaceUnchanged

(* check_tpsl_all: fetch_all_prices answers and the loop closes the trades *)
(* whose level is reached, in the session.                                 *)
race_fetch_all(h, price) ==
    LET s == inflight[h]
        hit == IF price = NoPrice THEN {}
               ELSE {i \in s.open_trades :
                       hit_tp(s.objects[i], price) \/ hit_sl(s.objects[i], price)}
        objects == [i \in DOMAIN s.objects |->
                      IF i \in hit THEN LevelClosed(s.objects[i], price)
                      ELSE s.objects[i]]
        pnl == [i \in hit |-> objects[i].realized_pnl]
        margin == [i \in hit |-> objects[i].margin_used]
    IN  /\ s.pc = "loop"
        /\ inflight' = [inflight EXCEPT ![h] =
             [@ EXCEPT !.pc = "days", !.price = price, !.hit = hit,
                       !.objects = objects,
                       !.account = [s.account EXCEPT
                          !.current_balance = @ + SumOver(hit, margin) + SumOver(hit, pnl),
                          !.total_trades = @ + Cardinality(hit),
                          !.winning_trades = @ + Cardinality({i \in hit : pnl[i] > 0})]]]
        /\ UNCHANGED <<accounts, trades, resp>>
        /\ RaceUnchanged

(* update_trading_days: the select of the trades closed today, once for    *)
(* each trade the request closed.                                          *)
race_trading_days(h) ==
    LET s == inflight[h]
        counted == update_trading_days(s.account, get_current_user)
    IN  /\ s.pc = "days"
        /\ inflight' = [inflight EXCEPT ![h] =
             [@ EXCEPT !.pc = "open",
                       !.account = IF counted = s.account THEN s.account
                                   ELSE [s.account EXCEPT !.trading_days_count =
                                                             @ + Cardinality(s.hit)]]]
        /\ UNCHANGED <<accounts, trades, resp>>
        /\ RaceUnchanged

(* The select of the OPEN trades after the close. *)
race_open_trades(h) ==
    /\ inflight[h].pc = "open"
    /\ inflight' = [inflight EXCEPT ![h] =
         [@ EXCEPT !.pc = "commit",
                   !.open_trades = TradesOf(get_current_user, "OPEN")]]
    /\ UNCHANGED <<accounts, trades, resp>>
    /\ RaceUnchanged

(* Equity (close_trade asks fetch_all_prices now, check_tpsl_all uses the  *)
(* prices it has), peak, drawdown rules, fail_account or                   *)
(* check_phase_completion, and the commit.                                 *)
race_commit(h, price) ==
    LET s == inflight[h]
        done == AfterCloseOn(s.account, s.objects, s.open_trades,
                             IF s.op = "close" THEN price ELSE s.price)
    IN  /\ s.pc = "commit"
        /\ s.op = "check-tpsl" => price = s.price
        /\ accounts' = [accounts EXCEPT ![get_current_user] =
                          Flush(@, s.loaded_account, done.account)]
        /\ trades' = [i \in 1..Len(trades) |->
                        Flush(trades[i], s.loaded_objects[i], done.objects[i])]
        /\ inflight' = [inflight EXCEPT ![h] =
             [@ EXCEPT !.pc = "done", !.code = 200,
                       !.account = done.account, !.objects = done.objects]]
        /\ resp' = Response(s.op, 200, done.notify)
        /\ RaceUnchanged

NextRace ==
    \/ \E h \in RaceHandlers, op \in {"close", "check-tpsl"} : race_begin(h, op)
    \/ \E h \in RaceHandlers : race_select_trade(h)
    \/ \E h \in RaceHandlers, close_price \in PaperPrices : race_fetch_price(h, close_price)
    \/ \E h \in RaceHandlers : race_select_open(h)
    \/ \E h \in RaceHandlers, price \in PaperPrices \cup {NoPrice} : race_fetch_all(h, price)
    \/ \E h \in RaceHandlers : race_trading_days(h)
    \/ \E h \in RaceHandlers : race_open_trades(h)
    \/ \E h \in RaceHandlers, price \in PaperPrices \cup {NoPrice} : race_commit(h, price)

SpecRace == InitRace /\ [][NextRace]_vars

(* C32: when the concurrent close requests on the open trade have all      *)
(* answered and the trade is closed, the account in its phase holds what   *)
(* it held before plus the margin and the realized P&L of the trade, once, *)
(* and total_trades is one more than before.                               *)
C32_ClosedOnce ==
    ( /\ \A h \in RaceHandlers : inflight[h].pc = "done"
      /\ trades[RaceTrade].status = "CLOSED"
      /\ accounts[1].phase = "EVALUATION" )
    => /\ accounts[1].current_balance
            = 900000 + trades[RaceTrade].margin_used + trades[RaceTrade].realized_pnl
       /\ accounts[1].total_trades \in {1, 11}

=============================================================================
